---- MODULE Spec2Model ----
(***************************************************************************)
(* A model of the pooled SMTP delivery engine of go-smtp:                  *)
(*   - infrastructure.ConnectionPool and SMTPClient.Send  (Spec)           *)
(*   - retry.Do, retry.IsRetryable                        (SpecRetry)      *)
(*   - retry.calculateBackoff                             (SpecBackoff)    *)
(*   - domain.Email, EmailBuilder and application.EmailService             *)
(*                                                        (SpecService)    *)
(***************************************************************************)
EXTENDS Integers, Sequences, FiniteSets, TLC

(***************************************************************************)
(* Bounds of the model.                                                    *)
(***************************************************************************)
\* Size of the pool (the `size` argument of NewConnectionPool).
PoolSize == 2
\* Number of goroutines that call SMTPClient.Send concurrently.
NumSenders == 2
\* Connections createConnection may establish after construction.
MaxRecreate == 1
\* retry.Config values tried: MaxAttempts in 0..MaxAttemptsBound,
\* InitialDelay in 0..MaxInitialDelay and MaxDelay in 0..MaxMaxDelay (in
\* ticks of the Duration type), Multiplier in {0, 1/2, .., MaxMulHalves/2}.
MaxAttemptsBound == 3
MaxInitialDelay == 2
MaxMaxDelay == 4
MaxMulHalves == 4
\* Addresses a builder list (To, Cc, Bcc) takes in the model.
MaxAddrs == 1
\* Emails handed to one SendBulkEmails call.
MaxBatch == 2
\* Attachments of an Email handed to buildMessage.
MaxAttachments == 2
\* The largest reading of the clock, in nanoseconds.
MaxClock == 1
\* Bytes of an attachment payload: 115 bytes encode to two lines of 76
\* characters and a third line.
MaxPayload == 115
\* Addresses in each of To, Cc and Bcc of an Email handed to
\* sendWithConnection.
MaxRcpt == 2

VARIABLES
    \* ---- ConnectionPool ------------------------------------------------
    connections,   \* p.connections: the buffered channel, a FIFO of handles
    chanClosed,    \* close(p.connections) has run
    closed,        \* p.closed
    mu,            \* p.mu is held (by Close: Get and Put hold it for one step)
    connState,     \* per connection: "unborn", "open" or "terminated"
    \* ---- goroutines running SMTPClient.Send ----------------------------
    pc,            \* position of each sender inside Send/Get/Put
    held,          \* the handle a sender has received (NoConn: none)
    gotConn,       \* Get returned (conn, nil) in the current Send
    putCount,      \* Put calls made by the current Send
    sendErr,       \* the error the current Send returns (NoErr: nil)
    \* ---- the goroutine that calls Close --------------------------------
    closePc,       \* position inside ConnectionPool.Close
    \* ---- the context shared by the calls -------------------------------
    ctxCancelled,  \* ctx.Done() is closed
    \* ---- retry.Do ------------------------------------------------------
    cfg,           \* the retry.Config Do runs with
    doPc,          \* position inside Do
    attempt,       \* the loop variable of Do
    lastErr,       \* lastErr of Do
    doDelay,       \* the delay of the wait Do is in
    doResult,      \* what Do returned
    calls,         \* invocations of fn by this Do
    waits,         \* waits this Do has entered
    waitsDone,     \* waits of this Do that ran to the end of the delay
    seen,          \* the reply codes of the results fn has returned to this Do
    cancelInWait,  \* the context was cancelled while this Do was parked in its select
    delays,        \* calculateBackoff(1, cfg), calculateBackoff(2, cfg), ...
    \* ---- domain.EmailBuilder ------------------------------------------
    bEmail,        \* b.email, the pointer of the builder (NoEmail: no builder)
    built,         \* the pointer the last Build returned (NoEmail: nil)
    buildErr,      \* the error the last Build returned ("none": no Build since
                   \* the last setter)
    \* ---- application.EmailService -------------------------------------
    emails,        \* the Email values that exist, by pointer
    svcPc,         \* position inside SendEmail
    cur,           \* the email SendEmail was called with
    sendEmailErr,  \* what SendEmail returned
    sendEmailLog,  \* per SendEmail call that returned, whether it returned an error
    senderCalls,   \* per email, the calls of s.sender.Send made for it
    batch,         \* the emails argument of SendBulkEmails: pointers
    bulkPc,        \* position inside SendBulkEmails
    idx,           \* the loop index of SendBulkEmails
    successCount,  \* successCount of SendBulkEmails
    failCount,     \* failCount of SendBulkEmails
    bulkResult,    \* what SendBulkEmails returned
    \* ---- SMTPClient.SendBulk ------------------------------------------
    sbPc,          \* position inside SendBulk ("off": SendBulk is not running)
    sbN,           \* len(emails)
    sbTask,        \* per sender: "free" (a caller of Send of its own), or the
                   \* goroutine SendBulk started for an email: "spawned", "done";
                   \* "absent" when SendBulk runs and has no email for it
    errChan,       \* errChan: the results the goroutines have sent
    sbErrors,      \* errors: the non-nil results collected
    sbI,           \* results received by the collecting loop
    sbResult,      \* what SendBulk returned
    sendLog,       \* what the Sends of the goroutines returned, in the order
                   \* they returned
    \* ---- NewConnectionPool ---------------------------------------------
    newPc,         \* position inside NewConnectionPool ("built": it returned
                   \* the pool, "failed": it returned the error)
    newSize,       \* the argument size
    port465,       \* p.config.Port == "465"
    newErr,        \* the error NewConnectionPool returns
    \* ---- SMTPClient.buildMessage ---------------------------------------
    message,       \* the lines buildMessage returned, <<>> before it ran
    attData,       \* att.Data, the payload of an attachment
    attPart,       \* the encoded lines written for att.Data, once written
    \* ---- SMTPClient.sendWithConnection ---------------------------------
    swcPc,         \* the command sendWithConnection issues next, "off" when
                   \* it is not running, "returned" after it
    rcptI,         \* recipients the RCPT TO loop has gone through
    cmds,          \* what the server has received on conn, with its replies
    swcErr,        \* what sendWithConnection returned
    msgIds,        \* the Message-ID of every message the client has built
    delivered      \* how often the server has accepted the message of the
                   \* running SendEmail

poolVars == <<connections, chanClosed, closed, mu, connState>>
sendVars == <<pc, held, gotConn, putCount, sendErr>>
closeVars == <<closePc>>
doVars == <<cfg, doPc, attempt, lastErr, doDelay, doResult, calls, waits, waitsDone,
           seen, cancelInWait>>
buildVars == <<bEmail, built, buildErr>>
svcVars == <<emails, svcPc, cur, sendEmailErr, sendEmailLog, senderCalls>>
bulkVars == <<batch, bulkPc, idx, successCount, failCount, bulkResult>>
sbVars == <<sbPc, sbN, sbTask, errChan, sbErrors, sbI, sbResult, sendLog>>
\* What neither the pool nor the service touches.
newVars == <<newPc, newSize, port465, newErr>>
swcVars == <<swcPc, rcptI, cmds, swcErr>>
msgVars == <<message, attData, attPart, swcVars, msgIds, delivered>>
extVars == <<sbVars, newVars, msgVars>>
\* What the connection pool never touches.
appVars == <<doVars, delays, buildVars, svcVars, bulkVars>>
retryVars == <<appVars, extVars>>
vars == <<poolVars, sendVars, closeVars, ctxCancelled, doVars, delays, buildVars,
          svcVars, bulkVars, extVars>>

Senders == 1..NumSenders
ConnIds == 1..(PoolSize + MaxRecreate)
\* the nil *smtp.Client
NoConn == 0
\* the nil error
NoErr == "nil"

\* Errors SMTPClient.Send returns, by the text fmt.Errorf gives them.
ErrPoolClosed == "failed to get connection: pool is closed"
ErrGetCtx == "failed to get connection: context canceled"
ErrGetTimeout == "failed to get connection: timeout waiting for connection"
ErrRecreate == "failed to get connection: failed to recreate connection"
ErrMail == "failed to send: MAIL FROM failed"
ErrRcpt == "failed to send: RCPT TO failed"
ErrData == "failed to send: DATA failed"
ErrWrite == "failed to send: write failed"
ErrClose == "failed to send: close failed"
ErrReset == "failed to send: RESET failed"

\* What sendWithConnection can return: the first failing command, or nil.
SendOutcomes == {ErrMail, ErrRcpt, ErrData, ErrWrite, ErrClose, ErrReset, NoErr}

\* Connections that are established and not terminated.
OpenConns == {c \in ConnIds : connState[c] = "open"}
\* Handles checked out by callers.
CheckedOut == {p \in Senders : held[p] # NoConn}
\* A nil pointer dereference has ended the process.
Crashed == \E p \in Senders : pc[p] = "panicked"

(***************************************************************************)
(* Package retry: the pure functions.                                      *)
(*                                                                         *)
(* An error is [code, text]: the SMTP reply code at the root of the error  *)
(* chain (0 when it is no SMTP reply) and the text err.Error() gives, as a *)
(* sequence of characters.  IsRetryable reads only the text.               *)
(***************************************************************************)
\* contains(s, substr) and containsSubstring(s, substr), as written.
containsSubstring(s, substr) ==
    \E i \in 0..(Len(s) - Len(substr)) : SubSeq(s, i + 1, i + Len(substr)) = substr

contains(s, substr) ==
    /\ Len(s) >= Len(substr)
    /\ \/ s = substr
       \/ Len(s) > Len(substr) /\ containsSubstring(s, substr)

temporaryErrors ==
    << <<"4", "2", "1">>,
       <<"4", "5", "0">>,
       <<"4", "5", "1">>,
       <<"4", "5", "2">>,
       <<"t", "i", "m", "e", "o", "u", "t">>,
       <<"c", "o", "n", "n", "e", "c", "t", "i", "o", "n", " ",
         "r", "e", "f", "u", "s", "e", "d">>,
       <<"c", "o", "n", "n", "e", "c", "t", "i", "o", "n", " ",
         "r", "e", "s", "e", "t">>,
       <<"t", "e", "m", "p", "o", "r", "a", "r", "y", " ",
         "f", "a", "i", "l", "u", "r", "e">> >>

permanentErrors ==
    << <<"5", "5", "0">>,
       <<"5", "5", "1">>,
       <<"5", "5", "2">>,
       <<"5", "5", "3">>,
       <<"5", "5", "4">> >>

\* An IsRetryable that does not retry what it does not recognize.
IsRetryableKnownOnly(err) ==
    \E i \in 1..Len(temporaryErrors) : contains(err.text, temporaryErrors[i])

\* IsRetryable: the temporary indicators are looked for first, then the
\* permanent ones; an error with neither is retried.
IsRetryable(err) ==
    IF \E i \in 1..Len(temporaryErrors) : contains(err.text, temporaryErrors[i])
    THEN TRUE
    ELSE IF \E i \in 1..Len(permanentErrors) : contains(err.text, permanentErrors[i])
    THEN FALSE
    ELSE TRUE

\* The errors fn returns in the model: the text of a textproto.Error is its
\* code, a space and the server's message.
Err550 == [code |-> 550, text |-> <<"5", "5", "0", " ", "n", "o">>]
Err550Ref450 ==
    [code |-> 550, text |-> <<"5", "5", "0", " ", "u", "4", "5", "0", "@", "x">>]
Err554Timeout ==
    [code |-> 554, text |-> <<"5", "5", "4", " ", "t", "i", "m", "e", "o", "u", "t">>]
Err451 == [code |-> 451, text |-> <<"4", "5", "1", " ", "b", "u", "s", "y">>]
Err451Ref550 ==
    [code |-> 451, text |-> <<"4", "5", "1", " ", "u", "5", "5", "0", "@", "x">>]
ErrUnknown == [code |-> 0, text |-> <<"p", "o", "o", "l", " ", "i", "s", " ",
                                      "c", "l", "o", "s", "e", "d">>]
\* What Send returns when Get saw the context cancelled:
\* "failed to get connection: context canceled", here its last words.
ErrCtxCanceled == [code |-> 0, text |-> <<"c", "o", "n", "t", "e", "x", "t", " ",
                                          "c", "a", "n", "c", "e", "l", "e", "d">>]
OpErrors == {Err550, Err550Ref450, Err554Timeout, Err451, Err451Ref550, ErrUnknown}
\* the nil error, as a value of the same shape
NilErr == [code |-> -1, text |-> <<>>]

PermanentCodes == 550..554

RECURSIVE Pow(_, _)
Pow(b, e) == IF e <= 0 THEN 1 ELSE b * Pow(b, e - 1)

\* time.Second, in ticks of the model's Duration.
Second == 1000

\* A retry.Config; Multiplier is MulHalves / 2.
DefaultConfig ==
    [MaxAttempts |-> 5, InitialDelay |-> 1 * Second, MaxDelay |-> 30 * Second,
     MulHalves |-> 4]

Configs ==
    [MaxAttempts : 0..MaxAttemptsBound, InitialDelay : 0..MaxInitialDelay,
     MaxDelay : 0..MaxMaxDelay, MulHalves : 0..MaxMulHalves]
    \cup {DefaultConfig}

\* float64(InitialDelay) * math.Pow(Multiplier, attempt-1) as the fraction
\* BackoffNum / BackoffDen.
BackoffNum(n, config) == config.InitialDelay * Pow(config.MulHalves, n - 1)
BackoffDen(n, config) == Pow(2, n - 1)

\* A conversion to Duration that rounds the product up.
DurationCeil(num, den) == (num + den - 1) \div den

\* time.Duration(delay): the float64 is truncated to a whole number of ticks.
Duration(num, den) == num \div den

\* A calculateBackoff without the cap at MaxDelay.
calculateBackoffNoCap(n, config) ==
    Duration(BackoffNum(n, config), BackoffDen(n, config))

\* calculateBackoff(attempt, config).
calculateBackoff(n, config) ==
    IF BackoffNum(n, config) > config.MaxDelay * BackoffDen(n, config)
    THEN config.MaxDelay
    ELSE Duration(BackoffNum(n, config), BackoffDen(n, config))

\* No Do is running.
DoIdle ==
    /\ cfg = DefaultConfig
    /\ doPc = "idle"
    /\ attempt = 0
    /\ lastErr = NilErr
    /\ doDelay = 0
    /\ doResult = [kind |-> "none"]
    /\ calls = 0
    /\ waits = 0
    /\ waitsDone = 0
    /\ seen = {}
    /\ cancelInWait = FALSE

(***************************************************************************)
(* Package domain: Email, Validate, isValidEmail, EmailBuilder.            *)
(* Addresses are sequences of characters; subject and bodies are strings,  *)
(* of which the code reads only whether they are empty.                    *)
(***************************************************************************)
Letters ==
    {"a", "b", "c", "d", "e", "f", "g", "h", "i", "j", "k", "l", "m", "n", "o", "p",
     "q", "r", "s", "t", "u", "v", "w", "x", "y", "z",
     "A", "B", "C", "D", "E", "F", "G", "H", "I", "J", "K", "L", "M", "N", "O", "P",
     "Q", "R", "S", "T", "U", "V", "W", "X", "Y", "Z"}
Digits == {"0", "1", "2", "3", "4", "5", "6", "7", "8", "9"}
\* [a-zA-Z0-9._%+\-] and [a-zA-Z0-9.\-]
LocalChars == Letters \cup Digits \cup {".", "_", "%", "+", "-"}
DomainChars == Letters \cup Digits \cup {".", "-"}

\* isValidEmail: ^[a-zA-Z0-9._%+\-]+@[a-zA-Z0-9.\-]+\.[a-zA-Z]{2,}$
isValidEmail(s) ==
    \E i \in 1..Len(s), j \in 1..Len(s) :
        /\ s[i] = "@"
        /\ i >= 2
        /\ \A k \in 1..(i - 1) : s[k] \in LocalChars
        /\ s[j] = "."
        /\ j >= i + 2
        /\ \A k \in (i + 1)..(j - 1) : s[k] \in DomainChars
        /\ Len(s) - j >= 2
        /\ \A k \in (j + 1)..Len(s) : s[k] \in Letters

\* The addresses of the model: a@b.io, and a@b, which has no top level.
AddrOk == <<"a", "@", "b", ".", "i", "o">>
AddrBad == <<"a", "@", "b">>
Addrs == {AddrOk, AddrBad}
\* The texts of the model: empty or not.
Texts == {"", "x"}

\* A Validate without the check of the recipients list.
ValidateNoRecipientCheck(e) ==
    IF e.From = <<>> THEN "from address is required"
    ELSE IF ~isValidEmail(e.From) THEN "invalid from address"
    ELSE IF \E n \in 1..Len(e.To) : ~isValidEmail(e.To[n]) THEN "invalid to address"
    ELSE IF e.Subject = "" THEN "subject is required"
    ELSE IF e.TextBody = "" /\ e.HTMLBody = ""
         THEN "at least one body (text or HTML) is required"
    ELSE NoErr

\* Email.Validate: the first failing check, or nil.
Validate(e) ==
    IF e.From = <<>> THEN "from address is required"
    ELSE IF ~isValidEmail(e.From) THEN "invalid from address"
    ELSE IF Len(e.To) = 0 THEN "at least one recipient is required"
    ELSE IF \E n \in 1..Len(e.To) : ~isValidEmail(e.To[n]) THEN "invalid to address"
    ELSE IF e.Subject = "" THEN "subject is required"
    ELSE IF e.TextBody = "" /\ e.HTMLBody = ""
         THEN "at least one body (text or HTML) is required"
    ELSE NoErr

\* NewEmailBuilder: the Email of a new builder.
NewEmail ==
    [From |-> <<>>, To |-> <<>>, Cc |-> <<>>, Bcc |-> <<>>, Subject |-> "",
     TextBody |-> "", HTMLBody |-> "", Attachments |-> <<>>, Headers |-> <<>>,
     Priority |-> "PriorityNormal", Status |-> "pending", Attempts |-> 0,
     LastError |-> [kind |-> "none"]]

\* Email values a caller makes without the builder (the struct is exported).
EmailOk ==
    [NewEmail EXCEPT !.From = AddrOk, !.To = <<AddrOk>>, !.Subject = "x",
                     !.TextBody = "x"]
EmailNoTo == [EmailOk EXCEPT !.To = <<>>]
EmailNoBody == [EmailOk EXCEPT !.TextBody = ""]
LiteralEmails == {EmailOk, EmailNoTo, EmailNoBody}
\* An Email with a blind copy to a@b.
EmailBadBcc == [EmailOk EXCEPT !.Bcc = <<AddrBad>>]

\* The email is one the claim about the validation gate names.
NoRecipientOrNoBody(e) == Len(e.To) = 0 \/ (e.TextBody = "" /\ e.HTMLBody = "")

\* What s.sender.Send returns in the model.
SenderResults == {NilErr, Err451, Err550, ErrUnknown}

\* nil, as a *Email.
NoEmail == 0

\* No EmailBuilder exists.
BuilderUnused ==
    /\ bEmail = NoEmail
    /\ built = NoEmail
    /\ buildErr = "none"

\* No SendEmail is running; the emails es exist.
ServiceIdle(es) ==
    /\ emails = es
    /\ svcPc = "off"
    /\ cur = NoEmail
    /\ sendEmailErr = [kind |-> "none"]
    /\ sendEmailLog = <<>>
    /\ senderCalls = [n \in 1..Len(es) |-> 0]

BulkIdle ==
    /\ batch = <<>>
    /\ bulkPc = "off"
    /\ idx = 0
    /\ successCount = 0
    /\ failCount = 0
    /\ bulkResult = [kind |-> "none"]

\* NewConnectionPool(config, PoolSize) has returned the pool.
NewBuilt ==
    /\ newPc = "built"
    /\ newSize = PoolSize
    /\ port465 = FALSE
    /\ newErr = NoErr

\* SendBulk is not running: every sender calls Send on its own.
SendBulkIdle ==
    /\ sbPc = "off"
    /\ sbN = 0
    /\ sbTask = [p \in Senders |-> "free"]
    /\ errChan = <<>>
    /\ sbErrors = <<>>
    /\ sbI = 0
    /\ sbResult = [kind |-> "none"]
    /\ sendLog = <<>>

\* buildMessage has not run.
\* sendWithConnection is not running.
SwcIdle ==
    /\ swcPc = "off"
    /\ rcptI = 0
    /\ cmds = <<>>
    /\ swcErr = NoErr

BuildMessageIdle ==
    /\ message = <<>>
    /\ attData = <<>>
    /\ attPart = [done |-> FALSE, lines |-> <<>>]
    /\ SwcIdle
    /\ msgIds = <<>>
    /\ delivered = 0

(***************************************************************************)
(* NewConnectionPool succeeded: the buffer holds PoolSize authenticated    *)
(* connections.                                                            *)
(***************************************************************************)
InitPool ==
    /\ NewBuilt
    /\ connections = [i \in 1..PoolSize |-> i]
    /\ chanClosed = FALSE
    /\ closed = FALSE
    /\ mu = FALSE
    /\ connState = [c \in ConnIds |-> IF c <= PoolSize THEN "open" ELSE "unborn"]

InitSend ==
    /\ pc = [p \in Senders |-> "idle"]
    /\ held = [p \in Senders |-> NoConn]
    /\ gotConn = [p \in Senders |-> FALSE]
    /\ putCount = [p \in Senders |-> 0]
    /\ sendErr = [p \in Senders |-> NoErr]

InitClose ==
    /\ closePc = "idle"

Init ==
    /\ InitPool
    /\ InitSend
    /\ InitClose
    /\ ctxCancelled = FALSE
    /\ DoIdle
    /\ delays = <<>>
    /\ BuilderUnused
    /\ ServiceIdle(<<>>)
    /\ BulkIdle
    /\ SendBulkIdle
    /\ BuildMessageIdle

(***************************************************************************)
(* SMTPClient.Send, one goroutine per sender.                              *)
(***************************************************************************)
\* A Get that does not read p.closed.
GetAfterNoCheck(isClosed) == "get_select"

\* Where Get goes after reading p.closed under the lock.
GetAfterCheck(isClosed) == IF isClosed THEN "send_ret" ELSE "get_select"

\* Send is called and calls Get: lock, read p.closed, unlock; "pool is
\* closed" when it is set.
GetCheck(p) ==
    /\ ~Crashed
    /\ pc[p] = "idle"
    /\ sbTask[p] \in {"free", "spawned"}
    /\ ~mu
    /\ pc' = [pc EXCEPT ![p] = GetAfterCheck(closed)]
    /\ sendErr' = [sendErr EXCEPT ![p] =
                      IF GetAfterCheck(closed) = "send_ret" THEN ErrPoolClosed ELSE NoErr]
    /\ UNCHANGED <<held, gotConn, putCount, poolVars, closeVars, ctxCancelled, retryVars>>

\* A receive that leaves the handle it returns in the buffer.
RecvPeek(q) == q

\* The buffer after a receive took its first handle.
RecvRest(q) == Tail(q)

\* Get: the select receives a handle from the buffer.
GetRecv(p) ==
    /\ ~Crashed
    /\ pc[p] = "get_select"
    /\ Len(connections) > 0
    /\ held' = [held EXCEPT ![p] = Head(connections)]
    /\ connections' = RecvRest(connections)
    /\ pc' = [pc EXCEPT ![p] = "get_probe"]
    /\ UNCHANGED <<gotConn, putCount, sendErr, chanClosed, closed, mu, connState,
                   closeVars, ctxCancelled, doVars, delays, buildVars, svcVars, bulkVars,
                   extVars>>

\* Get: the buffer is closed and drained, the receive yields nil, and
\* conn.Noop() dereferences it.
GetRecvNil(p) ==
    /\ ~Crashed
    /\ pc[p] = "get_select"
    /\ Len(connections) = 0
    /\ chanClosed
    /\ pc' = [pc EXCEPT ![p] = "panicked"]
    /\ UNCHANGED <<held, gotConn, putCount, sendErr, poolVars, closeVars, ctxCancelled, retryVars>>

\* Get: the select takes <-ctx.Done().
GetCtxDone(p) ==
    /\ ~Crashed
    /\ pc[p] = "get_select"
    /\ ctxCancelled
    /\ pc' = [pc EXCEPT ![p] = "send_ret"]
    /\ sendErr' = [sendErr EXCEPT ![p] = ErrGetCtx]
    /\ UNCHANGED <<held, gotConn, putCount, poolVars, closeVars, ctxCancelled, retryVars>>

\* A select without the case <-time.After(30s).
GetNoTimeout(p) ==
    /\ FALSE
    /\ UNCHANGED vars

\* Get: the select takes <-time.After(30s); nothing else was ready.
GetTimeout(p) ==
    /\ ~Crashed
    /\ pc[p] = "get_select"
    /\ Len(connections) = 0
    /\ ~chanClosed
    /\ pc' = [pc EXCEPT ![p] = "send_ret"]
    /\ sendErr' = [sendErr EXCEPT ![p] = ErrGetTimeout]
    /\ UNCHANGED <<held, gotConn, putCount, poolVars, closeVars, ctxCancelled, retryVars>>

\* A replacement that leaves the dead connection open.
ReplacedDeadKept(st, c, n) == [st EXCEPT ![n] = "open"]

\* The connections that exist once a dead handle c has been replaced by n.
Replaced(st, c, n) == [st EXCEPT ![c] = "terminated", ![n] = "open"]

\* Get: conn.Noop() answers; a dead connection is closed and replaced by
\* createConnection, or Get fails when that fails.
GetProbe(p) ==
    /\ ~Crashed
    /\ pc[p] = "get_probe"
    /\ \/ \* the probe succeeds: return conn, nil
          /\ pc' = [pc EXCEPT ![p] = "send"]
          /\ gotConn' = [gotConn EXCEPT ![p] = TRUE]
          /\ UNCHANGED <<held, sendErr, connState>>
       \/ \* the probe fails, createConnection succeeds: return newConn, nil
          /\ \E n \in ConnIds :
                /\ connState[n] = "unborn"
                /\ \A m \in ConnIds : connState[m] = "unborn" => n <= m
                /\ connState' = Replaced(connState, held[p], n)
                /\ held' = [held EXCEPT ![p] = n]
          /\ pc' = [pc EXCEPT ![p] = "send"]
          /\ gotConn' = [gotConn EXCEPT ![p] = TRUE]
          /\ UNCHANGED sendErr
       \/ \* the probe fails, createConnection fails: return nil, err
          /\ connState' = [connState EXCEPT ![held[p]] = "terminated"]
          /\ held' = [held EXCEPT ![p] = NoConn]
          /\ pc' = [pc EXCEPT ![p] = "send_ret"]
          /\ sendErr' = [sendErr EXCEPT ![p] = ErrRecreate]
          /\ UNCHANGED gotConn
    /\ UNCHANGED <<putCount, connections, chanClosed, closed, mu,
                   closeVars, ctxCancelled, doVars, delays, buildVars, svcVars, bulkVars,
                   extVars>>

\* A Put that does not look at p.closed.
PutIgnoresClosed(p) ==
    /\ ~mu
    /\ IF Len(connections) < PoolSize
         THEN /\ connections' = Append(connections, held[p])
              /\ UNCHANGED connState
         ELSE /\ connState' = [connState EXCEPT ![held[p]] = "terminated"]
              /\ UNCHANGED connections
    /\ held' = [held EXCEPT ![p] = NoConn]
    /\ putCount' = [putCount EXCEPT ![p] = @ + 1]

\* Put: under the lock, buffer the handle if the pool is open and has
\* room, terminate it otherwise; Put returns nil either way.
Put(p) ==
    /\ ~mu
    /\ IF closed
         THEN /\ connState' = [connState EXCEPT ![held[p]] = "terminated"]
              /\ UNCHANGED connections
         ELSE IF Len(connections) < PoolSize
         THEN /\ connections' = Append(connections, held[p])
              /\ UNCHANGED connState
         ELSE /\ connState' = [connState EXCEPT ![held[p]] = "terminated"]
              /\ UNCHANGED connections
    /\ held' = [held EXCEPT ![p] = NoConn]
    /\ putCount' = [putCount EXCEPT ![p] = @ + 1]

\* A Send that calls Put only at the end of its success path.
PutOnSuccessOnly(p, err) ==
    IF err = NoErr THEN Put(p) ELSE UNCHANGED <<connections, connState, held, putCount>>

\* Send: `defer c.pool.Put(conn)` runs Put when Send returns err, whatever
\* err is.
DeferredPut(p, err) == Put(p)

\* Send after Get returned a connection: buildMessage (which never fails)
\* and sendWithConnection on the connection this sender owns, which ends
\* with the first failing command or with nil; then the deferred Put.
SendWithConnection(p) ==
    /\ ~Crashed
    /\ pc[p] = "send"
    /\ \E err \in SendOutcomes :
          /\ sendErr' = [sendErr EXCEPT ![p] = err]
          /\ DeferredPut(p, err)
    /\ pc' = [pc EXCEPT ![p] = "send_ret"]
    /\ UNCHANGED <<gotConn, chanClosed, closed, mu, closeVars, ctxCancelled, retryVars>>

\* The goroutine of SendBulk, `errChan <- c.Send(ctx, e)`: the result of
\* Send goes into errChan, which has room for every goroutine, and the
\* goroutine ends.  Any other caller of Send just has its result.
GoroutineExit(p) ==
    IF sbTask[p] = "spawned"
    THEN /\ errChan' = Append(errChan, sendErr[p])
         /\ sbTask' = [sbTask EXCEPT ![p] = "done"]
         /\ sendLog' = Append(sendLog, sendErr[p])
    ELSE UNCHANGED <<errChan, sbTask, sendLog>>

\* Send returns sendErr[p] to its caller; the call's record is dropped.
SendReturn(p) ==
    /\ ~Crashed
    /\ pc[p] = "send_ret"
    /\ pc' = [pc EXCEPT ![p] = "idle"]
    /\ gotConn' = [gotConn EXCEPT ![p] = FALSE]
    /\ putCount' = [putCount EXCEPT ![p] = 0]
    /\ sendErr' = [sendErr EXCEPT ![p] = NoErr]
    /\ GoroutineExit(p)
    /\ UNCHANGED <<held, poolVars, closeVars, ctxCancelled, appVars, sbPc, sbN, sbErrors,
                   sbI, sbResult, newVars, msgVars>>

(***************************************************************************)
(* ConnectionPool.Close                                                    *)
(***************************************************************************)
\* A Close that does not look at p.closed.
NeverAlreadyClosed == FALSE

\* `if p.closed` of Close.
AlreadyClosed == closed

\* Close: lock; if already closed go to `return nil`, else set p.closed.
CloseLock ==
    /\ ~Crashed
    /\ closePc = "idle"
    /\ newPc = "closing" => ~closed
    /\ newPc \in {"built", "closing"}
    /\ ~mu
    /\ mu' = TRUE
    /\ IF AlreadyClosed
         THEN /\ closePc' = "again"
              /\ UNCHANGED closed
         ELSE /\ closed' = TRUE
              /\ closePc' = "flagged"
    /\ UNCHANGED <<connections, chanClosed, connState, sendVars, ctxCancelled, retryVars>>

\* Close: close(p.connections).
CloseChan ==
    /\ ~Crashed
    /\ closePc = "flagged"
    /\ chanClosed' = TRUE
    /\ closePc' = "draining"
    /\ UNCHANGED <<connections, closed, mu, connState, sendVars, ctxCancelled, retryVars>>

\* A Close that empties the buffer without closing what it takes out.
CloseDrainKeepsOpen ==
    /\ ~Crashed
    /\ closePc = "draining"
    /\ Len(connections) > 0
    /\ connections' = Tail(connections)
    /\ UNCHANGED <<connState, chanClosed, closed, mu, closeVars, sendVars, ctxCancelled,
                   retryVars>>

\* Close: one iteration of `for conn := range p.connections`: Quit, Close.
CloseDrain ==
    /\ ~Crashed
    /\ closePc = "draining"
    /\ Len(connections) > 0
    /\ connState' = [connState EXCEPT ![Head(connections)] = "terminated"]
    /\ connections' = Tail(connections)
    /\ UNCHANGED <<chanClosed, closed, mu, closeVars, sendVars, ctxCancelled, retryVars>>

\* Close: the range loop ends, the lock is released, Close returns nil.
CloseReturn ==
    /\ ~Crashed
    /\ closePc = "draining"
    /\ Len(connections) = 0
    /\ mu' = FALSE
    /\ closePc' = "idle"
    /\ UNCHANGED <<connections, chanClosed, closed, connState, sendVars, ctxCancelled, retryVars>>

\* Close of a pool that was closed already: the lock is released, Close
\* returns nil.
CloseAgain ==
    /\ ~Crashed
    /\ closePc = "again"
    /\ mu' = FALSE
    /\ closePc' = "idle"
    /\ UNCHANGED <<connections, chanClosed, closed, connState, sendVars, ctxCancelled, retryVars>>

\* The caller's context is cancelled.
CtxCancel ==
    /\ ~Crashed
    /\ ~ctxCancelled
    /\ ctxCancelled' = TRUE
    /\ cancelInWait' = (doPc = "waiting")
    /\ UNCHANGED <<poolVars, sendVars, closeVars, cfg, doPc, attempt, lastErr, doDelay,
                   doResult, calls, waits, waitsDone, seen, delays, buildVars, svcVars,
                   bulkVars, extVars>>

Next ==
    \/ \E p \in Senders : GetCheck(p)
    \/ \E p \in Senders : GetRecv(p)
    \/ \E p \in Senders : GetRecvNil(p)
    \/ \E p \in Senders : GetCtxDone(p)
    \/ \E p \in Senders : GetTimeout(p)
    \/ \E p \in Senders : GetProbe(p)
    \/ \E p \in Senders : SendWithConnection(p)
    \/ \E p \in Senders : SendReturn(p)
    \/ CloseLock
    \/ CloseChan
    \/ CloseDrain
    \/ CloseReturn
    \/ CloseAgain
    \/ CtxCancel

Spec == Init /\ [][Next]_vars

(***************************************************************************)
(* Claims about the pool and Send, checked under Spec.                     *)
(***************************************************************************)
\* C1: in every reachable state the connections buffered in the pool plus
\* the connections checked out by callers number at most PoolSize, and so
\* do the connections that are open at all.
C1_PoolCapacity ==
    /\ Len(connections) + Cardinality(CheckedOut) <= PoolSize
    /\ Cardinality(OpenConns) <= PoolSize

\* Every slot is checked out at once, one of them a replacement made by Get.
C1_Witness ==
    /\ Cardinality(CheckedOut) = PoolSize
    /\ \E p \in Senders : pc[p] = "send" /\ held[p] > PoolSize

\* C2: once p.closed is set, no Get receives a handle from the buffer and
\* goes on to use it, and no Get returns a connection.
C2_ClosedPoolNeverHandsOut ==
    [][closed =>
        \A p \in Senders :
            /\ ~(pc[p] = "get_select" /\ pc'[p] \in {"get_probe", "panicked"})
            /\ ~(pc[p] = "get_probe" /\ pc'[p] = "send")]_vars

\* C3: a Get that starts after Close has returned ends in that same step
\* with the pool-closed error: it does not enter the select, and the buffer
\* and the connections are as before.
C3_GetAfterCloseFailsFast ==
    [][\A p \in Senders :
          (pc[p] = "idle" /\ pc'[p] # "idle" /\ closed /\ closePc = "idle")
          => /\ pc'[p] = "send_ret"
             /\ sendErr'[p] = ErrPoolClosed
             /\ held'[p] = NoConn
             /\ connections' = connections
             /\ connState' = connState]_vars

\* A Send is about to return the pool-closed error after Close returned.
C3_Witness ==
    \E p \in Senders :
        pc[p] = "send_ret" /\ sendErr[p] = ErrPoolClosed /\ closed /\ closePc = "idle"

\* C4: when Send is about to return, it has called Put exactly once if its
\* Get returned a connection, whatever sendWithConnection returned, and not
\* at all if its Get failed; it no longer holds the connection.
C4_PutExactlyOnce ==
    \A p \in Senders :
        pc[p] = "send_ret"
        => /\ putCount[p] = (IF gotConn[p] THEN 1 ELSE 0)
           /\ gotConn[p] = (sendErr[p] \in SendOutcomes)
           /\ held[p] = NoConn

\* One Send returns a DATA failure after its Put while another returns a
\* Get timeout without one.
C4_Witness ==
    \E p, q \in Senders :
        /\ pc[p] = "send_ret" /\ sendErr[p] = ErrData /\ putCount[p] = 1
        /\ pc[q] = "send_ret" /\ sendErr[q] = ErrGetTimeout /\ putCount[q] = 0

(***************************************************************************)
(* retry.Do                                                                *)
(***************************************************************************)
\* Do is entered with config.
DoEnter(config) ==
    /\ cfg = config
    /\ doPc = "loop"
    /\ attempt = 1
    /\ lastErr = NilErr
    /\ doDelay = 0
    /\ doResult = [kind |-> "none"]
    /\ calls = 0
    /\ waits = 0
    /\ waitsDone = 0
    /\ seen = {}
    /\ cancelInWait = FALSE

\* What Do returns.
DoNil == [kind |-> "nil"]
DoPermanent(a, config, err) ==
    [kind |-> "permanent", attempt |-> a, max |-> config.MaxAttempts, wraps |-> err]
DoExhausted(config, err) ==
    [kind |-> "exhausted", max |-> config.MaxAttempts, wraps |-> err]
DoCancelled == [kind |-> "cancelled", wraps |-> "context canceled"]

\* A loop that never takes the `break` of the last attempt.
NoLastAttempt(a, config) == FALSE

\* `if attempt == config.MaxAttempts { break }`
LastAttempt(a, config) == a = config.MaxAttempts

\* Do returns r.
DoReturn(r) ==
    /\ doResult' = r
    /\ doPc' = "returned"

\* A closure that calls s.sender.Send without counting the attempt.
FnUncounted ==
    IF svcPc = "retrying"
    THEN /\ senderCalls' = [senderCalls EXCEPT ![cur] = @ + 1]
         /\ UNCHANGED emails
    ELSE UNCHANGED <<emails, senderCalls>>

\* fn, the function Do retries.  Called by SendEmail it is the closure that
\* counts the attempt on the email and calls s.sender.Send; called on its
\* own it is any operation, which returns nil or an error.
Fn ==
    IF svcPc = "retrying"
    THEN /\ emails' = [emails EXCEPT ![cur].Attempts = @ + 1]
         /\ senderCalls' = [senderCalls EXCEPT ![cur] = @ + 1]
    ELSE UNCHANGED <<emails, senderCalls>>

FnResults == IF svcPc = "retrying" THEN SenderResults ELSE OpErrors \cup {NilErr}

\* One iteration of the loop of Do, up to its return or its select: the
\* loop condition, fn(ctx), the classification of its error, the break of
\* the last attempt and the backoff delay.  fn returns nil or any error.
DoIteration(err) ==
    /\ Fn
    /\ calls' = calls + 1
    /\ seen' = seen \cup {err.code}
    /\ IF err = NilErr
         THEN /\ DoReturn(DoNil)
              /\ UNCHANGED <<lastErr, doDelay, waits, cancelInWait>>
         ELSE /\ lastErr' = err
              /\ IF ~IsRetryable(err)
                   THEN /\ DoReturn(DoPermanent(attempt, cfg, err))
                        /\ UNCHANGED <<doDelay, waits, cancelInWait>>
                   ELSE IF LastAttempt(attempt, cfg)
                   THEN /\ DoReturn(DoExhausted(cfg, err))
                        /\ UNCHANGED <<doDelay, waits, cancelInWait>>
                   ELSE /\ doDelay' = calculateBackoff(attempt, cfg)
                        /\ waits' = waits + 1
                        /\ cancelInWait' = FALSE
                        /\ doPc' = "waiting"
                        /\ UNCHANGED doResult
    /\ UNCHANGED <<cfg, attempt, waitsDone>>

\* The loop condition fails: `max attempts reached` with the last error.
DoLoopExit ==
    /\ DoReturn(DoExhausted(cfg, lastErr))
    /\ UNCHANGED <<cfg, attempt, lastErr, doDelay, calls, waits, waitsDone, seen,
                   cancelInWait, emails, senderCalls>>

DoAttempt ==
    /\ doPc = "loop"
    /\ IF attempt <= cfg.MaxAttempts
         THEN \E err \in FnResults : DoIteration(err)
         ELSE DoLoopExit
    /\ UNCHANGED <<poolVars, sendVars, closeVars, ctxCancelled, delays, buildVars,
                   svcPc, cur, sendEmailErr, sendEmailLog, bulkVars, extVars>>

\* A wait that does not listen to the context (time.Sleep(delay)).
TimerWinsAlways == TRUE

\* The select of Do takes <-time.After(delay): the timer fires while Do is
\* parked and the context is not cancelled, or both cases are ready when
\* the select is entered (a context cancelled before, a delay of zero).
TimerWins == ~ctxCancelled \/ (~cancelInWait /\ doDelay <= 0)

DoWaitTimer ==
    /\ doPc = "waiting"
    /\ TimerWins
    /\ waitsDone' = waitsDone + 1
    /\ attempt' = attempt + 1
    /\ doPc' = "loop"
    /\ UNCHANGED <<cfg, lastErr, doDelay, doResult, calls, waits, seen, cancelInWait,
                   poolVars, sendVars, closeVars, ctxCancelled, delays, buildVars,
                   svcVars, bulkVars, extVars>>

\* The select of Do takes <-ctx.Done(): `retry cancelled`.
DoWaitCtx ==
    /\ doPc = "waiting"
    /\ ctxCancelled
    /\ DoReturn(DoCancelled)
    /\ UNCHANGED <<cfg, attempt, lastErr, doDelay, calls, waits, waitsDone, seen,
                   cancelInWait, poolVars, sendVars, closeVars, ctxCancelled, delays,
                   buildVars, svcVars, bulkVars, extVars>>

\* Do has just been called with some configuration; the pool is not used.
InitRetry ==
    /\ InitPool
    /\ InitSend
    /\ InitClose
    /\ ctxCancelled \in BOOLEAN
    /\ \E config \in Configs : DoEnter(config)
    /\ delays = <<>>
    /\ BuilderUnused
    /\ ServiceIdle(<<>>)
    /\ BulkIdle
    /\ SendBulkIdle
    /\ BuildMessageIdle

DoStep == DoAttempt \/ DoWaitTimer \/ DoWaitCtx

NextRetry ==
    \/ DoAttempt
    \/ DoWaitTimer
    \/ DoWaitCtx
    \/ CtxCancel

\* The goroutine running Do is scheduled and its timer fires.
SpecRetry == InitRetry /\ [][NextRetry]_vars /\ WF_vars(DoStep)

(***************************************************************************)
(* calculateBackoff for attempts 1, 2, .. MaxAttempts of a configuration.  *)
(***************************************************************************)
InitBackoff ==
    /\ InitPool
    /\ InitSend
    /\ InitClose
    /\ ctxCancelled = FALSE
    /\ cfg \in Configs
    /\ doPc = "idle"
    /\ attempt = 0
    /\ lastErr = NilErr
    /\ doDelay = 0
    /\ doResult = [kind |-> "none"]
    /\ calls = 0
    /\ waits = 0
    /\ waitsDone = 0
    /\ seen = {}
    /\ cancelInWait = FALSE
    /\ delays = <<>>
    /\ BuilderUnused
    /\ ServiceIdle(<<>>)
    /\ BulkIdle
    /\ SendBulkIdle
    /\ BuildMessageIdle

BackoffNext ==
    /\ Len(delays) < cfg.MaxAttempts
    /\ delays' = Append(delays, calculateBackoff(Len(delays) + 1, cfg))
    /\ UNCHANGED <<poolVars, sendVars, closeVars, ctxCancelled, doVars, buildVars,
                   svcVars, bulkVars, extVars>>

NextBackoff == BackoffNext

SpecBackoff == InitBackoff /\ [][NextBackoff]_vars

(***************************************************************************)
(* Claims about retry.Do, checked under SpecRetry.                         *)
(***************************************************************************)
\* C5: when fn fails on every call with an error of reply code 550..554 and
\* MaxAttempts >= 1, Do calls fn exactly once, waits never, and returns the
\* permanent error that wraps fn's error.
C5_PermanentAttemptedOnce ==
    (doPc = "returned" /\ cfg.MaxAttempts >= 1 /\ seen # {} /\ seen \subseteq PermanentCodes)
    => /\ calls = 1
       /\ waits = 0
       /\ doResult = DoPermanent(1, cfg, lastErr)

\* C6: when fn fails on every call with an error of reply code 451 and the
\* context is never cancelled, Do returns having called fn exactly
\* MaxAttempts times and waited MaxAttempts - 1 times, each wait between two
\* calls and run to its end, with the exhausted-retries error that names
\* MaxAttempts and wraps the last error of fn; and Do does return.
C6_Returned451 ==
    (doPc = "returned" /\ seen = {451} /\ ~ctxCancelled)
    => /\ calls = cfg.MaxAttempts
       /\ waits = cfg.MaxAttempts - 1
       /\ waitsDone = waits
       /\ lastErr.code = 451
       /\ doResult = DoExhausted(cfg, lastErr)

C6_TransientExhausts == []C6_Returned451 /\ <>(doPc = "returned")

\* Three attempts, all answered 451, the last one with a text that also
\* holds the digits 550.
C6_Witness ==
    /\ doPc = "returned"
    /\ seen = {451}
    /\ ~ctxCancelled
    /\ cfg.MaxAttempts = 3
    /\ calls = 3
    /\ lastErr = Err451Ref550

\* C7: once the context is cancelled while Do is parked in the select
\* between two attempts, the only step Do takes is to return the
\* cancellation error: fn is not called again and the wait is not run to
\* its end.
C7_CancelDuringWait ==
    [][(doPc = "waiting" /\ cancelInWait)
       => /\ doPc' = "returned"
          /\ doResult' = DoCancelled
          /\ calls' = calls
          /\ waitsDone' = waitsDone]_vars

\* Do has returned the cancellation error with attempts left, the context
\* having been cancelled during the wait.
C7_Witness ==
    /\ doPc = "returned"
    /\ doResult = DoCancelled
    /\ cancelInWait
    /\ doDelay > 0
    /\ calls = 1
    /\ cfg.MaxAttempts = 3

(***************************************************************************)
(* Claims about calculateBackoff, checked under SpecBackoff.               *)
(***************************************************************************)
Min(a, b) == IF a <= b THEN a ELSE b

\* With Multiplier >= 1 the delays computed so far are non-decreasing and at
\* most MaxDelay; with the defaults they are 1s, 2s, 4s, 8s, 16s.
BackoffShape ==
    /\ cfg.MulHalves >= 2 =>
          /\ \A n \in 1..Len(delays) : delays[n] <= cfg.MaxDelay
          /\ \A n \in 1..(Len(delays) - 1) : delays[n] <= delays[n + 1]
    /\ cfg = DefaultConfig =>
          \A n \in 1..Len(delays) : delays[n] = Pow(2, n - 1) * Second

BuilderReady ==
    /\ bEmail # NoEmail
    /\ svcPc = "off"

\* A setter of the builder leaves b.email.<field> = v.  It writes through
\* b.email, the pointer an earlier Build handed to the caller (built), which
\* the caller keeps; buildErr is the error of a Build that ran on the
\* present content, "none" after a setter.
BuilderSet(e) ==
    /\ emails' = [emails EXCEPT ![bEmail] = e]
    /\ buildErr' = "none"
    /\ UNCHANGED <<poolVars, sendVars, closeVars, ctxCancelled, doVars, delays, bEmail,
                   built, svcPc, cur, sendEmailErr, sendEmailLog, senderCalls,
                   bulkVars, extVars>>

BuilderFrom ==
    \E from \in Addrs \cup {<<>>} :
        /\ BuilderReady
        /\ BuilderSet([emails[bEmail] EXCEPT !.From = from])

BuilderTo ==
    \E to \in Addrs :
        /\ BuilderReady
        /\ Len(emails[bEmail].To) < MaxAddrs
        /\ BuilderSet([emails[bEmail] EXCEPT !.To = Append(@, to)])

BuilderCc ==
    \E cc \in Addrs :
        /\ BuilderReady
        /\ Len(emails[bEmail].Cc) < MaxAddrs
        /\ BuilderSet([emails[bEmail] EXCEPT !.Cc = Append(@, cc)])

BuilderSubject ==
    \E subject \in Texts :
        /\ BuilderReady
        /\ BuilderSet([emails[bEmail] EXCEPT !.Subject = subject])

BuilderTextBody ==
    \E body \in Texts :
        /\ BuilderReady
        /\ BuilderSet([emails[bEmail] EXCEPT !.TextBody = body])

BuilderHTMLBody ==
    \E body \in Texts :
        /\ BuilderReady
        /\ BuilderSet([emails[bEmail] EXCEPT !.HTMLBody = body])

\* Build: (nil, err) when Validate fails, (b.email, nil) otherwise.
Build ==
    /\ BuilderReady
    /\ buildErr = "none"
    /\ LET err == Validate(emails[bEmail])
       IN  /\ buildErr' = err
           /\ built' = IF err # NoErr THEN NoEmail ELSE bEmail
    /\ UNCHANGED <<poolVars, sendVars, closeVars, ctxCancelled, doVars, delays, bEmail,
                   svcVars, bulkVars, extVars>>

(***************************************************************************)
(* application.EmailService                                                *)
(***************************************************************************)
\* retry.Do is called with config.
DoCall(config) ==
    /\ cfg' = config
    /\ doPc' = "loop"
    /\ attempt' = 1
    /\ lastErr' = NilErr
    /\ doDelay' = 0
    /\ doResult' = [kind |-> "none"]
    /\ calls' = 0
    /\ waits' = 0
    /\ waitsDone' = 0
    /\ seen' = {}
    /\ cancelInWait' = FALSE

\* The frame of a Do that returned is gone.
DoGone ==
    /\ cfg' = DefaultConfig
    /\ doPc' = "idle"
    /\ attempt' = 0
    /\ lastErr' = NilErr
    /\ doDelay' = 0
    /\ doResult' = [kind |-> "none"]
    /\ calls' = 0
    /\ waits' = 0
    /\ waitsDone' = 0
    /\ seen' = {}
    /\ cancelInWait' = FALSE

\* s.retryConfig, which NewEmailService sets.
retryConfig == DefaultConfig

\* SendEmail returns err.
SendEmailReturn(err) ==
    /\ sendEmailErr' = err
    /\ sendEmailLog' = Append(sendEmailLog, err # [kind |-> "nil"])
    /\ svcPc' = "returned"

\* SendEmail(ctx, email) up to its return of the validation error or its
\* call of retry.Do.
SendEmailStart(email) ==
    /\ cur' = email
    /\ LET err == Validate(emails[email])
       IN  IF err # NoErr
           THEN /\ SendEmailReturn([kind |-> "validation failed", wraps |-> err])
                /\ UNCHANGED <<emails, doVars>>
           ELSE /\ emails' = [emails EXCEPT ![email].Status = "sending"]
                /\ svcPc' = "retrying"
                /\ DoCall(retryConfig)
                /\ UNCHANGED <<sendEmailErr, sendEmailLog>>
    /\ UNCHANGED senderCalls

\* A SendEmail that returns the error of retry.Do without recording it.
SendEmailFinishUnrecorded ==
    /\ svcPc = "retrying"
    /\ doPc = "returned"
    /\ IF doResult # DoNil
         THEN /\ UNCHANGED emails
              /\ SendEmailReturn([kind |-> "failed to send email", wraps |-> doResult])
         ELSE /\ emails' = [emails EXCEPT ![cur].Status = "sent"]
              /\ SendEmailReturn([kind |-> "nil"])
    /\ DoGone
    /\ UNCHANGED <<poolVars, sendVars, closeVars, ctxCancelled, delays, buildVars, cur,
                   senderCalls, bulkVars, extVars>>

\* SendEmail after retry.Do returned.
SendEmailFinish ==
    /\ svcPc = "retrying"
    /\ doPc = "returned"
    /\ IF doResult # DoNil
         THEN /\ emails' = [emails EXCEPT ![cur].Status = "failed",
                                          ![cur].LastError = doResult]
              /\ SendEmailReturn([kind |-> "failed to send email", wraps |-> doResult])
         ELSE /\ emails' = [emails EXCEPT ![cur].Status = "sent"]
              /\ SendEmailReturn([kind |-> "nil"])
    /\ DoGone
    /\ UNCHANGED <<poolVars, sendVars, closeVars, ctxCancelled, delays, buildVars, cur,
                   senderCalls, bulkVars, extVars>>

\* The caller sends, once, the Email that Build returned or the Email it
\* made itself.
SendEmailCall ==
    /\ bulkPc = "off"
    /\ svcPc = "off"
    /\ \E email \in 1..Len(emails) :
          /\ email = bEmail => built = email
          /\ SendEmailStart(email)
    /\ UNCHANGED <<poolVars, sendVars, closeVars, ctxCancelled, delays, buildVars,
                   bulkVars, extVars>>

\* NewEmailBuilder and NewEmailService returned; the caller holds the
\* builder and an Email of its own.
InitService ==
    /\ InitPool
    /\ InitSend
    /\ InitClose
    /\ ctxCancelled \in BOOLEAN
    /\ DoIdle
    /\ delays = <<>>
    /\ bEmail = 1
    /\ built = NoEmail
    /\ buildErr = "none"
    /\ \E e \in LiteralEmails \cup {EmailBadBcc} : ServiceIdle(<<NewEmail, e>>)
    /\ BulkIdle
    /\ SendBulkIdle
    /\ BuildMessageIdle

NextService ==
    \/ BuilderFrom
    \/ BuilderTo
    \/ BuilderCc
    \/ BuilderSubject
    \/ BuilderTextBody
    \/ BuilderHTMLBody
    \/ Build
    \/ SendEmailCall
    \/ DoAttempt
    \/ DoWaitTimer
    \/ DoWaitCtx
    \/ SendEmailFinish
    \/ CtxCancel

SpecService == InitService /\ [][NextService]_vars

(***************************************************************************)
(* C9.  An Email with an empty To list, or with both TextBody and HTMLBody *)
(* empty, is rejected: when Build has run on such an Email it returned an  *)
(* error and no Email; and SendEmail called with such an Email returns the *)
(* validation error, the sender's Send is never invoked for it, its        *)
(* Attempts stay 0 and retry.Do is not entered.                            *)
(***************************************************************************)
C9_InvalidEmailRejected ==
    /\ (bEmail # NoEmail /\ buildErr # "none" /\ NoRecipientOrNoBody(emails[bEmail]))
           => (buildErr # NoErr /\ built = NoEmail)
    /\ \A p \in 1..Len(emails) :
           NoRecipientOrNoBody(emails[p]) =>
               /\ senderCalls[p] = 0
               /\ emails[p].Attempts = 0
               /\ emails[p].Status = "pending"
               /\ cur = p => (svcPc \in {"off", "returned"} /\ doPc = "idle" /\ calls = 0)
               /\ (cur = p /\ svcPc = "returned")
                      => sendEmailErr.kind = "validation failed"

\* Build refused an Email that has a recipient and no body, and SendEmail
\* returned the validation error for an Email without recipients.
C9_Witness ==
    /\ Len(emails[bEmail].To) > 0
    /\ buildErr = "at least one body (text or HTML) is required"
    /\ built = NoEmail
    /\ svcPc = "returned"
    /\ emails[cur] = EmailNoTo
    /\ sendEmailErr = [kind |-> "validation failed",
                       wraps |-> "at least one recipient is required"]

(***************************************************************************)
(* SendBulkEmails(ctx, emails)                                             *)
(***************************************************************************)
\* The largest pointer among the first k of s.
RECURSIVE MaxRef(_, _)
MaxRef(s, k) ==
    IF k = 0 THEN 0
    ELSE IF s[k] > MaxRef(s, k - 1) THEN s[k] ELSE MaxRef(s, k - 1)

\* The lists of pointers SendBulkEmails is called with: up to MaxBatch
\* pointers, two of which may be the same Email; the Emails are numbered
\* in the order the list first names them.
Batches ==
    {s \in UNION {[1..n -> 1..MaxBatch] : n \in 0..MaxBatch} :
        \A k \in 1..Len(s) : s[k] <= MaxRef(s, k - 1) + 1}

\* A tally that takes only validation errors for failures.
BulkFailedValidationOnly(err) == err.kind = "validation failed"

\* `err != nil` of the loop body.
BulkFailed(err) == err # [kind |-> "nil"]

\* The loop calls SendEmail for the next email of the list.
BulkLoop ==
    /\ bulkPc = "loop"
    /\ svcPc = "off"
    /\ idx <= Len(batch)
    /\ SendEmailStart(batch[idx])
    /\ UNCHANGED <<poolVars, sendVars, closeVars, ctxCancelled, delays, buildVars,
                   bulkVars, extVars>>

\* A loop that stops at the first failure.
BulkTallyAbort ==
    /\ bulkPc = "loop"
    /\ svcPc = "returned"
    /\ IF BulkFailed(sendEmailErr)
         THEN /\ failCount' = failCount + 1
              /\ idx' = Len(batch) + 1
              /\ UNCHANGED successCount
         ELSE /\ successCount' = successCount + 1
              /\ idx' = idx + 1
              /\ UNCHANGED failCount
    /\ svcPc' = "off"
    /\ cur' = NoEmail
    /\ sendEmailErr' = [kind |-> "none"]
    /\ UNCHANGED <<poolVars, sendVars, closeVars, ctxCancelled, doVars, delays, buildVars,
                   emails, sendEmailLog, senderCalls, batch, bulkPc, bulkResult,
                   extVars>>

\* SendEmail returned to the loop, which counts.
BulkTally ==
    /\ bulkPc = "loop"
    /\ svcPc = "returned"
    /\ IF BulkFailed(sendEmailErr)
         THEN /\ failCount' = failCount + 1
              /\ UNCHANGED successCount
         ELSE /\ successCount' = successCount + 1
              /\ UNCHANGED failCount
    /\ idx' = idx + 1
    /\ svcPc' = "off"
    /\ cur' = NoEmail
    /\ sendEmailErr' = [kind |-> "none"]
    /\ UNCHANGED <<poolVars, sendVars, closeVars, ctxCancelled, doVars, delays, buildVars,
                   emails, sendEmailLog, senderCalls, batch, bulkPc, bulkResult,
                   extVars>>

\* After the loop: the aggregate error, or nil.
BulkReturn ==
    /\ bulkPc = "loop"
    /\ svcPc = "off"
    /\ idx > Len(batch)
    /\ bulkResult' = IF failCount > 0
                       THEN [kind |-> "failed to send", failed |-> failCount,
                             total |-> Len(batch)]
                       ELSE [kind |-> "nil"]
    /\ bulkPc' = "returned"
    /\ UNCHANGED <<poolVars, sendVars, closeVars, ctxCancelled, doVars, delays, buildVars,
                   svcVars, batch, idx, successCount, failCount, extVars>>

\* SendBulkEmails is entered with a list of Emails the caller made.
InitBulk ==
    /\ InitPool
    /\ InitSend
    /\ InitClose
    /\ ctxCancelled \in BOOLEAN
    /\ DoIdle
    /\ delays = <<>>
    /\ BuilderUnused
    /\ batch \in Batches
    /\ \E es \in [1..MaxRef(batch, Len(batch)) -> LiteralEmails] : ServiceIdle(es)
    /\ bulkPc = "loop"
    /\ idx = 1
    /\ successCount = 0
    /\ failCount = 0
    /\ bulkResult = [kind |-> "none"]
    /\ SendBulkIdle
    /\ BuildMessageIdle

BulkStep ==
    BulkLoop \/ BulkTally \/ BulkReturn \/ DoAttempt \/ DoWaitTimer \/ DoWaitCtx
        \/ SendEmailFinish

NextBulk ==
    \/ BulkLoop
    \/ BulkTally
    \/ BulkReturn
    \/ DoAttempt
    \/ DoWaitTimer
    \/ DoWaitCtx
    \/ SendEmailFinish
    \/ CtxCancel

\* The goroutine running SendBulkEmails is scheduled and its timers fire.
SpecBulk == InitBulk /\ [][NextBulk]_vars /\ WF_vars(BulkStep)

(***************************************************************************)
(* C10.  SendBulkEmails over any list of emails ends, and when it has      *)
(* returned successCount + failCount is the number of emails, failCount is *)
(* the number of SendEmail calls that returned an error, and the aggregate *)
(* error is non-nil if and only if failCount > 0.                          *)
(***************************************************************************)
C10_Tally ==
    bulkPc = "returned" =>
        /\ successCount + failCount = Len(batch)
        /\ Len(sendEmailLog) = Len(batch)
        /\ failCount = Cardinality({n \in 1..Len(sendEmailLog) : sendEmailLog[n]})
        /\ (bulkResult # [kind |-> "nil"]) <=> (failCount > 0)
        /\ bulkResult # [kind |-> "nil"]
               => bulkResult = [kind |-> "failed to send", failed |-> failCount,
                                total |-> Len(batch)]

C10_BulkCounts == []C10_Tally /\ <>(bulkPc = "returned")

\* A full list of which one email exhausted its retries and one was sent.
C10_Witness ==
    /\ bulkPc = "returned"
    /\ Len(batch) = MaxBatch
    /\ \E p \in 1..Len(emails) :
           emails[p].Status = "failed" /\ emails[p].LastError.kind = "exhausted"
    /\ \E p \in 1..Len(emails) : emails[p].Status = "sent"
    /\ successCount >= 1
    /\ failCount >= 1
    /\ bulkResult.kind = "failed to send"

(***************************************************************************)
(* C11.  SendBulkEmails processes its list strictly in order: a call of    *)
(* the sender is always for the email at the loop index, made while every  *)
(* earlier email of the list has had its SendEmail return and no later one *)
(* has been touched; and a failure never stops the loop: when              *)
(* SendBulkEmails has returned, SendEmail has returned once per list entry *)
(* and the sender was called at least once per entry whose email passes    *)
(* validation, whatever happened to the entries before it.                 *)
(***************************************************************************)
\* The list entries that name the email p.
EntriesOf(p) == {i \in 1..Len(batch) : batch[i] = p}

C11_SenderCallInOrder ==
    \A p \in 1..Len(emails) :
        senderCalls'[p] # senderCalls[p] =>
            /\ bulkPc = "loop"
            /\ idx \in 1..Len(batch)
            /\ batch[idx] = p
            /\ cur = p
            /\ Len(sendEmailLog) = idx - 1
            /\ \A q \in 1..Len(emails) :
                   (\A i \in EntriesOf(q) : i > idx) => senderCalls[q] = 0

C11_AllAttempted ==
    bulkPc = "returned" =>
        /\ Len(sendEmailLog) = Len(batch)
        /\ \A p \in 1..Len(emails) :
               Validate(emails[p]) = NoErr
                   => senderCalls[p] >= Cardinality(EntriesOf(p))

C11_InOrder == [][C11_SenderCallInOrder]_vars /\ []C11_AllAttempted

\* The first email of a full list of distinct emails failed in the sender
\* and the last one was attempted all the same.
C11_Witness ==
    /\ bulkPc = "returned"
    /\ Len(batch) = MaxBatch
    /\ Len(emails) = MaxBatch
    /\ emails[batch[1]].Status = "failed"
    /\ senderCalls[batch[1]] >= 1
    /\ senderCalls[batch[Len(batch)]] >= 1

(***************************************************************************)
(* SMTPClient.SendBulk: one goroutine per email runs Send and sends its    *)
(* result into errChan; SendBulk receives len(emails) results.             *)
(***************************************************************************)
\* A collecting loop that stops at the first error.
CollectedOrFailed == sbI >= sbN \/ Len(sbErrors) > 0

\* The collecting loop `for i := 0; i < len(emails); i++` has ended.
Collected == sbI >= sbN

\* `err := <-errChan`, appended to errors when it is not nil.
SendBulkRecv ==
    /\ ~Crashed
    /\ sbPc = "collect"
    /\ ~Collected
    /\ errChan # <<>>
    /\ errChan' = Tail(errChan)
    /\ sbErrors' = IF Head(errChan) # NoErr THEN Append(sbErrors, Head(errChan))
                                           ELSE sbErrors
    /\ sbI' = sbI + 1
    /\ UNCHANGED <<poolVars, sendVars, closeVars, ctxCancelled, appVars, sbPc, sbN, sbTask,
                   sbResult, sendLog, newVars, msgVars>>

\* After the loop: the aggregate error with the count and errors[0], or nil.
SendBulkReturn ==
    /\ ~Crashed
    /\ sbPc = "collect"
    /\ Collected
    /\ sbResult' = IF Len(sbErrors) > 0
                     THEN [kind |-> "failed to send", count |-> Len(sbErrors),
                           first |-> sbErrors[1]]
                     ELSE [kind |-> "nil"]
    /\ sbPc' = "returned"
    /\ UNCHANGED <<poolVars, sendVars, closeVars, ctxCancelled, appVars, sbN, sbTask,
                   errChan, sbErrors, sbI, sendLog, newVars, msgVars>>

\* A pool in use: k of its connections are buffered, the others were found
\* dead by a Get that could not replace them.
InitPoolUsed ==
    /\ NewBuilt
    /\ \E k \in 0..PoolSize :
          /\ connections = [i \in 1..k |-> i]
          /\ connState = [c \in ConnIds |-> IF c <= k THEN "open"
                                             ELSE IF c <= PoolSize THEN "terminated"
                                             ELSE "unborn"]
    /\ chanClosed = FALSE
    /\ closed = FALSE
    /\ mu = FALSE

\* SendBulk has started its goroutines, one per email, and none has run.
InitSendBulk ==
    /\ InitPoolUsed
    /\ InitSend
    /\ InitClose
    /\ ctxCancelled \in BOOLEAN
    /\ DoIdle
    /\ delays = <<>>
    /\ BuilderUnused
    /\ ServiceIdle(<<>>)
    /\ BulkIdle
    /\ sbPc = "collect"
    /\ sbN \in 0..NumSenders
    /\ sbTask = [p \in Senders |-> IF p <= sbN THEN "spawned" ELSE "absent"]
    /\ errChan = <<>>
    /\ sbErrors = <<>>
    /\ sbI = 0
    /\ sbResult = [kind |-> "none"]
    /\ sendLog = <<>>
    /\ BuildMessageIdle

NextSendBulk ==
    \/ \E p \in Senders : GetCheck(p)
    \/ \E p \in Senders : GetRecv(p)
    \/ \E p \in Senders : GetCtxDone(p)
    \/ \E p \in Senders : GetTimeout(p)
    \/ \E p \in Senders : GetProbe(p)
    \/ \E p \in Senders : SendWithConnection(p)
    \/ \E p \in Senders : SendReturn(p)
    \/ SendBulkRecv
    \/ SendBulkReturn
    \/ CtxCancel

SpecSendBulk == InitSendBulk /\ [][NextSendBulk]_vars

(***************************************************************************)
(* C12.  SendBulk starts exactly one Send per email and no other; it       *)
(* returns only after all of them have returned; it returns nil iff every  *)
(* Send returned nil, and otherwise the aggregate error with the number of *)
(* Sends that failed and the first error, which is the error of the first  *)
(* failed Send to return.                                                  *)
(***************************************************************************)
\* The Sends that returned an error, by position in sendLog.
FailedSends == {n \in 1..Len(sendLog) : sendLog[n] # NoErr}

\* The goroutines whose Send is running or has returned.
Started == {p \in Senders : pc[p] # "idle" \/ sbTask[p] = "done"}

\* A Send begins only in a goroutine that has not called Send before, and
\* a goroutine that ends has logged one result.
C12_OneSendPerEmail ==
    /\ \A p \in Senders :
           (pc[p] = "idle" /\ pc'[p] # "idle") => (sbTask[p] = "spawned" /\ p <= sbN)
    /\ \A p \in Senders :
           sbTask'[p] # sbTask[p] =>
               /\ sbTask[p] = "spawned"
               /\ sbTask'[p] = "done"
               /\ pc[p] = "send_ret"
               /\ pc'[p] = "idle"
               /\ sendLog' = Append(sendLog, sendErr[p])

C12_Returned ==
    /\ Len(sendLog) = Cardinality({p \in Senders : sbTask[p] = "done"})
    /\ sbPc = "returned" =>
          /\ Len(sendLog) = sbN
          /\ Started = 1..sbN
          /\ \A p \in 1..sbN : sbTask[p] = "done" /\ pc[p] = "idle"
          /\ (sbResult = [kind |-> "nil"]) <=> (FailedSends = {})
          /\ FailedSends # {} =>
                 \E n \in FailedSends :
                     /\ \A m \in FailedSends : n <= m
                     /\ sbResult = [kind |-> "failed to send",
                                    count |-> Cardinality(FailedSends),
                                    first |-> sendLog[n]]

C12_SendBulkWaitsAndCounts == [][C12_OneSendPerEmail]_vars /\ []C12_Returned

\* SendBulk returned the aggregate error of a full list of which the first
\* Send to return succeeded and a later one failed.
C12_Witness ==
    /\ sbPc = "returned"
    /\ sbN = NumSenders
    /\ sendLog[1] = NoErr
    /\ sbResult.kind = "failed to send"
    /\ sbResult.count = 1

(***************************************************************************)
(* C13.  Close is idempotent.  When the first Close has returned the pool  *)
(* is marked closed, its channel is closed and its buffer is empty, and    *)
(* every connection Close took out of the buffer is terminated; a Close    *)
(* of a closed pool only takes the lock and returns nil: it changes        *)
(* neither the buffer, the channel, the flag nor any connection, and Close *)
(* never marks or drains the pool a second time.                           *)
(***************************************************************************)
\* The buffer as a set.
Buffered == {connections[i] : i \in 1..Len(connections)}

C13_FirstCloseDone ==
    (closed /\ closePc \in {"idle", "again"}) =>
        /\ chanClosed
        /\ connections = <<>>
        /\ \A c \in ConnIds : connState[c] = "open" => \E p \in Senders : held[p] = c

C13_CloseSteps ==
    /\ (closePc = "draining" /\ Len(connections') < Len(connections) /\ held' = held)
           => connState'[Head(connections)] = "terminated"
    /\ (closed /\ closePc = "idle") => closePc' \in {"idle", "again"}
    /\ closePc = "again" =>
           \/ closePc' = "again"
           \/ /\ closePc' = "idle"
              /\ UNCHANGED <<connections, chanClosed, closed, connState, sendVars>>
    /\ closed => closed'
    /\ chanClosed => chanClosed'

C13_CloseIdempotent == [][C13_CloseSteps]_vars /\ []C13_FirstCloseDone

\* A second Close is inside the closed pool, whose connections the first
\* Close has all terminated.
C13_Witness ==
    /\ closePc = "again"
    /\ closed
    /\ connections = <<>>
    /\ \A c \in 1..PoolSize : connState[c] = "terminated"

(***************************************************************************)
(* C14.  Put never waits for room and always comes back: in one step, with *)
(* the lock, the connection becomes buffered when the pool is open and the *)
(* buffer has room, and is terminated otherwise (pool closed or buffer     *)
(* full), and the caller no longer holds it.  Whatever Close does in       *)
(* between, a buffered connection is never a terminated one, no connection *)
(* is buffered twice, and the buffer of a closed pool never grows.         *)
(***************************************************************************)
C14_Buffer ==
    /\ \A i \in 1..Len(connections) : connState[connections[i]] = "open"
    /\ \A i, j \in 1..Len(connections) : connections[i] = connections[j] => i = j
    /\ \A p \in Senders : held[p] # NoConn => held[p] \notin Buffered

C14_PutStep ==
    /\ \A p \in Senders :
           putCount'[p] = putCount[p] + 1 =>
               /\ ~mu
               /\ held[p] # NoConn
               /\ held'[p] = NoConn
               /\ IF ~closed /\ Len(connections) < PoolSize
                    THEN /\ connections' = Append(connections, held[p])
                         /\ connState' = connState
                    ELSE /\ connections' = connections
                         /\ connState' = [connState EXCEPT ![held[p]] = "terminated"]
    /\ closed => Len(connections') <= Len(connections)

C15_GetStep ==
    \A p \in Senders :
        /\ (pc'[p] = "get_probe" /\ pc[p] # "get_probe")
               => /\ pc[p] = "get_select"
                  /\ connections # <<>>
                  /\ held'[p] = Head(connections)
        /\ (pc'[p] = "send" /\ pc[p] # "send")
               => /\ pc[p] = "get_probe"
                  /\ held'[p] # NoConn
                  /\ connState'[held'[p]] = "open"
                  /\ \/ held'[p] = held[p]
                     \/ /\ connState[held'[p]] = "unborn"
                        /\ connState'[held[p]] = "terminated"
        /\ (pc[p] = "get_probe" /\ pc'[p] = "send_ret")
               => /\ connState'[held[p]] = "terminated"
                  /\ held'[p] = NoConn

C15_DeadStaysOut ==
    \A c \in ConnIds :
        connState[c] = "terminated" => (c \notin Buffered /\ \A p \in Senders : held[p] # c)

C15_GetReturnsProbed == [][C15_GetStep]_vars /\ []C15_DeadStaysOut

\* A Get returned the connection it created in place of a dead one.
C15_Witness ==
    \E p \in Senders :
        /\ pc[p] = "send"
        /\ held[p] > PoolSize
        /\ connState[held[p]] = "open"
        /\ \E c \in 1..PoolSize : connState[c] = "terminated"

(***************************************************************************)
(* NewConnectionPool(config, size): createConnection size times, each into *)
(* the buffer; on the first failure pool.Close() and the error.            *)
(* A connection being made is "half" made: its transport is open and it is *)
(* not authenticated yet.                                                  *)
(***************************************************************************)
\* The connection createConnection is making.
Making == CHOOSE c \in ConnIds : connState[c] = "half"

\* The connection createConnection makes next.
NextConn == CHOOSE c \in ConnIds : connState[c] = "unborn" /\
                                   \A m \in ConnIds : connState[m] = "unborn" => c <= m

\* A constructor that returns the error without pool.Close().
OnCreateErrorReturn == "failed"

\* `if err != nil { pool.Close(); return nil, ... }`
OnCreateError == "closing"

\* A step of createConnection fails with err; what it had made is closed:
\* by client.Close(), or by smtp.NewClient itself when the greeting fails.
CreateFails(err) ==
    /\ connState' = [c \in ConnIds |-> IF connState[c] = "half" THEN "terminated"
                                                               ELSE connState[c]]
    /\ newErr' = err
    /\ newPc' = OnCreateError
    /\ UNCHANGED connections

NewUnchanged ==
    UNCHANGED <<chanClosed, closed, mu, sendVars, closeVars, ctxCancelled, appVars, sbVars,
                msgVars, newSize, port465>>

\* tls.Dial (port 465) or smtp.Dial, which is net.Dial and smtp.NewClient.
NewDial ==
    /\ newPc = "loop"
    /\ Len(connections) < newSize
    /\ \/ /\ connState' = [connState EXCEPT ![NextConn] = "half"]
          /\ newPc' = IF port465 THEN "dialed" ELSE "client"
          /\ UNCHANGED <<connections, newErr>>
       \/ CreateFails(IF port465 THEN "tls dial failed" ELSE "dial failed")
    /\ NewUnchanged

\* Port 465: smtp.NewClient on the TLS connection.
NewClient ==
    /\ newPc = "dialed"
    /\ \/ /\ newPc' = "auth"
          /\ UNCHANGED <<connections, connState, newErr>>
       \/ CreateFails("smtp client failed")
    /\ NewUnchanged

\* client.Hello("localhost")
NewHello ==
    /\ newPc = "client"
    /\ \/ /\ newPc' = "hello"
          /\ UNCHANGED <<connections, connState, newErr>>
       \/ CreateFails("hello failed")
    /\ NewUnchanged

\* client.StartTLS(tlsConfig)
NewStartTLS ==
    /\ newPc = "hello"
    /\ \/ /\ newPc' = "auth"
          /\ UNCHANGED <<connections, connState, newErr>>
       \/ CreateFails("starttls failed")
    /\ NewUnchanged

\* client.Auth(auth); createConnection returns the client, which goes into
\* the buffer.
NewAuth ==
    /\ newPc = "auth"
    /\ \/ /\ connState' = [connState EXCEPT ![Making] = "open"]
          /\ connections' = Append(connections, Making)
          /\ newPc' = "loop"
          /\ UNCHANGED newErr
       \/ CreateFails("auth failed")
    /\ NewUnchanged

\* The loop is over: return pool, nil.
NewReturn ==
    /\ newPc = "loop"
    /\ Len(connections) >= newSize
    /\ newPc' = "built"
    /\ UNCHANGED <<connections, connState, newErr>>
    /\ NewUnchanged

\* pool.Close() has returned: return nil, err.
NewFail ==
    /\ newPc = "closing"
    /\ closed
    /\ closePc = "idle"
    /\ newPc' = "failed"
    /\ UNCHANGED <<connections, connState, newErr>>
    /\ NewUnchanged

\* NewConnectionPool is entered with a size and a configuration.
InitNew ==
    /\ newPc = "loop"
    /\ newSize \in 0..PoolSize
    /\ port465 \in BOOLEAN
    /\ newErr = NoErr
    /\ connections = <<>>
    /\ chanClosed = FALSE
    /\ closed = FALSE
    /\ mu = FALSE
    /\ connState = [c \in ConnIds |-> "unborn"]
    /\ InitSend
    /\ InitClose
    /\ ctxCancelled = FALSE
    /\ DoIdle
    /\ delays = <<>>
    /\ BuilderUnused
    /\ ServiceIdle(<<>>)
    /\ BulkIdle
    /\ SendBulkIdle
    /\ BuildMessageIdle

NextNew ==
    \/ NewDial
    \/ NewClient
    \/ NewHello
    \/ NewStartTLS
    \/ NewAuth
    \/ NewReturn
    \/ NewFail
    \/ CloseLock
    \/ CloseChan
    \/ CloseDrain
    \/ CloseReturn
    \/ CloseAgain

SpecNew == InitNew /\ [][NextNew]_vars

(***************************************************************************)
(* C16.  Pool construction is all-or-nothing.  When NewConnectionPool has  *)
(* returned the pool, its buffer holds exactly size connections, each      *)
(* authenticated, and nothing else was left open; when it has returned the *)
(* error there is no pool to use, the buffer is empty, and every           *)
(* connection made on the way, whole or half, is terminated.               *)
(***************************************************************************)
C16_ReturnStep ==
    /\ (newPc # "built" /\ newPc' = "built") =>
          /\ newErr' = NoErr
          /\ ~closed'
          /\ Len(connections') = newSize
          /\ \A i \in 1..Len(connections') : connState'[connections'[i]] = "open"
          /\ \A i, j \in 1..Len(connections') :
                 connections'[i] = connections'[j] => i = j
          /\ \A c \in ConnIds :
                 connState'[c] \in {"open", "half"}
                     => \E i \in 1..Len(connections') : connections'[i] = c
    /\ (newPc # "failed" /\ newPc' = "failed") =>
          /\ newErr' # NoErr
          /\ closed'
          /\ connections' = <<>>
          /\ \A c \in ConnIds : connState'[c] \in {"unborn", "terminated"}
    /\ newPc \in {"built", "failed"} => newPc' = newPc

C16_AllOrNothing == [][C16_ReturnStep]_vars

\* Construction failed at the authentication of the last connection, after
\* the others had been buffered.
C16_Witness ==
    /\ newPc = "failed"
    /\ newSize = PoolSize
    /\ newErr = "auth failed"
    /\ \A c \in 1..PoolSize : connState[c] = "terminated"

(***************************************************************************)
(* C17.  When SendEmail has returned for an email that passed validation,  *)
(* the email's status is Sent if and only if SendEmail returned nil, and   *)
(* otherwise it is Failed and LastError is the text of the error of        *)
(* retry.Do that SendEmail returns wrapped; the status is Sending before   *)
(* and after every call of the sender, and it is not Sending when          *)
(* SendEmail has returned.                                                 *)
(***************************************************************************)
C17_AtReturn ==
    (svcPc = "returned" /\ sendEmailErr.kind # "validation failed") =>
        /\ emails[cur].Status \in {"sent", "failed"}
        /\ emails[cur].Status = "sent" <=> sendEmailErr = [kind |-> "nil"]
        /\ emails[cur].Status = "failed" =>
               /\ sendEmailErr.kind = "failed to send email"
               /\ emails[cur].LastError = sendEmailErr.wraps
               /\ emails[cur].LastError.kind \in {"permanent", "exhausted", "cancelled"}

C17_SendingDuringCalls ==
    \A p \in 1..Len(emails) :
        senderCalls'[p] # senderCalls[p] =>
            /\ emails[p].Status = "sending"
            /\ emails'[p].Status = "sending"

C17_StatusFollowsResult == [][C17_SendingDuringCalls]_vars /\ []C17_AtReturn

\* SendEmail returned the failure of an email whose retries were exhausted.
C17_Witness ==
    /\ svcPc = "returned"
    /\ emails[cur].Status = "failed"
    /\ emails[cur].LastError.kind = "exhausted"
    /\ emails[cur].Attempts = retryConfig.MaxAttempts
    /\ sendEmailErr.kind = "failed to send email"

(***************************************************************************)
(* C18.  The sender address and every recipient address (each entry of To, *)
(* Cc and Bcc) of an Email that passes Validate matches the address        *)
(* grammar; so does every Email that Build returns and every Email the     *)
(* sender is called with (whose To, Cc and Bcc all become RCPT TO).        *)
(***************************************************************************)
\* Recipients with the blind copies before the copies.
allRecipientsBccFirst(e) == e.To \o e.Bcc \o e.Cc

\* `allRecipients` of sendWithConnection.
allRecipients(e) == e.To \o e.Cc \o e.Bcc

AllAddressesValid(e) ==
    /\ isValidEmail(e.From)
    /\ \A n \in 1..Len(allRecipients(e)) : isValidEmail(allRecipients(e)[n])

C18_AddressesValid ==
    \A p \in 1..Len(emails) :
        ((built = p /\ buildErr = NoErr) \/ senderCalls[p] > 0)
            => AllAddressesValid(emails[p])

(***************************************************************************)
(* C19.  An Email that Build returned is immutable with respect to the     *)
(* builder: no later call on the same builder changes it, and it stays     *)
(* valid after the Validate that Build ran on it.                          *)
(***************************************************************************)
\* A step of the caller outside SendEmail, while it holds the Email that
\* Build returned: a call on the builder.
C19_LaterBuilderCall ==
    /\ built # NoEmail
    /\ built' = built
    /\ svcPc = "off"
    /\ svcPc' = "off"

C19_BuiltImmutable ==
    /\ [][C19_LaterBuilderCall => emails'[built] = emails[built]]_vars
    /\ [](built # NoEmail => Validate(emails[built]) = NoErr)

(***************************************************************************)
(* SMTPClient.buildMessage.  The message is the sequence of its lines,     *)
(* each ended by CRLF: a header field (name, tokens of the value), the     *)
(* empty line, a delimiter --boundary, a terminator --boundary--, a line   *)
(* of text or a line of base64.                                            *)
(***************************************************************************)
Line(t, k, v) == [t |-> t, k |-> k, v |-> v]
Field(k, v) == Line("field", k, v)
Blank == Line("blank", "", <<>>)
Dash(boundary) == Line("open", "", boundary)
DashDash(boundary) == Line("close", "", boundary)
TextLine(body) == Line("text", "", <<body>>)
Base64Line(chars) == Line("base64", "", chars)

\* c.config.Host
Host == "smtp.example.com"

\* mime.BEncoding.Encode("UTF-8", s): text of printable ASCII, which the
\* subjects of the model are, is returned as it is.
BEncode(s) == s

\* The '=' of base64, after the 64 characters of the alphabet (0..63).
Pad == 64

\* An encoder that drops the bytes after the last whole group of three.
RECURSIVE EncodeWholeGroups(_)
EncodeWholeGroups(data) ==
    IF Len(data) < 3 THEN <<>>
    ELSE <<data[1] \div 4, (data[1] % 4) * 16 + data[2] \div 16,
           (data[2] % 16) * 4 + data[3] \div 64, data[3] % 64>>
            \o EncodeWholeGroups(SubSeq(data, 4, Len(data)))

\* base64.StdEncoding.EncodeToString(data): three bytes become four
\* characters, the last one or two bytes are padded.
RECURSIVE EncodeToString(_)
EncodeToString(data) ==
    IF Len(data) = 0 THEN <<>>
    ELSE IF Len(data) = 1
         THEN <<data[1] \div 4, (data[1] % 4) * 16, Pad, Pad>>
    ELSE IF Len(data) = 2
         THEN <<data[1] \div 4, (data[1] % 4) * 16 + data[2] \div 16,
                (data[2] % 16) * 4, Pad>>
    ELSE <<data[1] \div 4, (data[1] % 4) * 16 + data[2] \div 16,
           (data[2] % 16) * 4 + data[3] \div 64, data[3] % 64>>
            \o EncodeToString(SubSeq(data, 4, Len(data)))

\* The length of an encoded line.
EncodedLineLen == 76

\* The loop over encoded[i:end]: one line for every 76 characters.
RECURSIVE EncodedLines(_)
EncodedLines(encoded) ==
    IF Len(encoded) = 0 THEN <<>>
    ELSE LET end == IF EncodedLineLen > Len(encoded) THEN Len(encoded)
                    ELSE EncodedLineLen
         IN  <<Base64Line(SubSeq(encoded, 1, end))>>
                \o EncodedLines(SubSeq(encoded, end + 1, Len(encoded)))

\* The loop over email.Headers, a map: one field for each key.
RECURSIVE CustomHeaders(_)
CustomHeaders(headers) ==
    IF DOMAIN headers = {} THEN <<>>
    ELSE LET key == CHOOSE k \in DOMAIN headers : TRUE
         IN  <<Field(key, <<headers[key]>>)>>
                \o CustomHeaders([k \in DOMAIN headers \ {key} |-> headers[k]])

\* Headers that name the blind copies.
MessageHeadersWithBcc(email, date, id) ==
    <<Field("From", <<email.From>>), Field("To", email.To)>>
    \o (IF Len(email.Cc) > 0 THEN <<Field("Cc", email.Cc)>> ELSE <<>>)
    \o (IF Len(email.Bcc) > 0 THEN <<Field("Bcc", email.Bcc)>> ELSE <<>>)
    \o <<Field("Subject", <<BEncode(email.Subject)>>),
         Field("Date", <<date>>),
         Field("Message-ID", <<id, Host>>),
         Field("MIME-Version", <<"1.0">>)>>

\* The headers buildMessage writes; date and id are the readings of the
\* clock for Date and Message-ID.
MessageHeaders(email, date, id) ==
    <<Field("From", <<email.From>>), Field("To", email.To)>>
    \o (IF Len(email.Cc) > 0 THEN <<Field("Cc", email.Cc)>> ELSE <<>>)
    \o <<Field("Subject", <<BEncode(email.Subject)>>),
         Field("Date", <<date>>),
         Field("Message-ID", <<id, Host>>)>>
    \o CustomHeaders(email.Headers)
    \o (IF email.Priority = "PriorityHigh"
          THEN <<Field("X-Priority", <<"1">>), Field("Importance", <<"high">>)>>
        ELSE IF email.Priority = "PriorityLow"
          THEN <<Field("X-Priority", <<"5">>), Field("Importance", <<"low">>)>>
        ELSE <<>>)
    \o <<Field("MIME-Version", <<"1.0">>)>>

\* A line feed without a carriage return.
LF == "\n"
\* Bodies with more in them than one line of text: two lines separated by a
\* line feed, and the line that ends the boundary inner_1.
TextBareLF == "x\ny"
TextBoundary == "--inner_1--"

\* buf.WriteString(body) and the CRLF after it: the bytes of the body go
\* into the message as they are, so the lines the message gains are the
\* lines of the body, whatever they are.
BodyLines(body) ==
    IF body = TextBareLF THEN <<Line("text", "", <<"x", LF, "y">>)>>
    ELSE IF body = TextBoundary THEN <<DashDash(<<"inner_", 1>>)>>
    ELSE <<TextLine(body)>>

\* The text part or the HTML part, written when body is not empty.
BodyPart(boundary, contentType, body) ==
    IF body # ""
      THEN <<Dash(boundary),
             Field("Content-Type", <<contentType, "charset", "UTF-8">>),
             Blank>>
           \o BodyLines(body)
           \o <<Blank>>
      ELSE <<>>

\* The two body parts and the terminator of the inner boundary.
AlternativeBlock(email, innerBoundary) ==
    BodyPart(innerBoundary, "text/plain", email.TextBody)
    \o BodyPart(innerBoundary, "text/html", email.HTMLBody)
    \o <<DashDash(innerBoundary)>>

\* One pass of the loop over email.Attachments.
AttachmentPart(att, outerBoundary) ==
    <<Dash(outerBoundary),
      Field("Content-Type", <<att.ContentType, "name", att.Filename>>),
      Field("Content-Transfer-Encoding", <<"base64">>),
      Field("Content-Disposition", <<"attachment", "filename", att.Filename>>),
      Blank>>
    \o EncodedLines(EncodeToString(att.Data))
    \o <<Blank>>

RECURSIVE AttachmentParts(_, _)
AttachmentParts(attachments, outerBoundary) ==
    IF Len(attachments) = 0 THEN <<>>
    ELSE AttachmentPart(Head(attachments), outerBoundary)
            \o AttachmentParts(Tail(attachments), outerBoundary)

\* buildMessage(email); now holds the four readings of time.Now(), in the
\* order of the calls: outer boundary, inner boundary, Date, Message-ID.
buildMessage(email, now) ==
    LET outerBoundary == <<"outer_", now[1]>>
        innerBoundary == <<"inner_", now[2] + 1>>
    IN  MessageHeaders(email, now[3], now[4])
        \o (IF Len(email.Attachments) > 0
              THEN <<Field("Content-Type",
                           <<"multipart/mixed", "boundary", outerBoundary>>),
                     Blank,
                     Dash(outerBoundary),
                     Field("Content-Type",
                           <<"multipart/alternative", "boundary", innerBoundary>>),
                     Blank>>
                   \o AlternativeBlock(email, innerBoundary)
                   \o <<Blank>>
                   \o AttachmentParts(email.Attachments, outerBoundary)
                   \o <<DashDash(outerBoundary)>>
              ELSE <<Field("Content-Type",
                           <<"multipart/alternative", "boundary", innerBoundary>>),
                     Blank>>
                   \o AlternativeBlock(email, innerBoundary))

\* Attachments, header maps and priorities of the model.  "Man" encodes to
\* TWFu, "M" to TQ==.
AttachmentValues ==
    {[Filename |-> "a.txt", ContentType |-> "text/plain", Data |-> <<77, 97, 110>>],
     [Filename |-> "b.bin", ContentType |-> "application/octet-stream",
      Data |-> <<77>>]}
AttachmentLists ==
    UNION {[1..n -> AttachmentValues] : n \in 0..MaxAttachments}
HeaderMaps ==
    {<<>>, [k \in {"X-Campaign"} |-> "x"], [k \in {"Content-Type"} |-> "text/plain"]}
Priorities == {"PriorityLow", "PriorityNormal", "PriorityHigh"}

\* The Emails handed to buildMessage.
MessageEmails ==
    {[EmailOk EXCEPT !.Cc = cc, !.TextBody = text, !.HTMLBody = html,
                     !.Attachments = atts, !.Headers = hdrs, !.Priority = prio] :
        cc \in {<<>>, <<AddrOk>>}, text \in Texts \cup {TextBareLF, TextBoundary},
        html \in Texts,
        atts \in AttachmentLists, hdrs \in HeaderMaps, prio \in Priorities}

\* The clock does not run backwards between the four readings.
ClockReadings ==
    {now \in [1..4 -> 0..MaxClock] : \A i \in 1..3 : now[i] <= now[i + 1]}

\* c.buildMessage(email) runs, once.
BuildMessageCall ==
    /\ message = <<>>
    /\ \E now \in ClockReadings : message' = buildMessage(emails[1], now)
    /\ UNCHANGED <<poolVars, sendVars, closeVars, ctxCancelled, appVars, sbVars,
                   newVars, attData, attPart, swcVars, msgIds, delivered>>

\* The caller holds the Email it is about to send.
InitMessage ==
    /\ InitPool
    /\ InitSend
    /\ InitClose
    /\ ctxCancelled = FALSE
    /\ DoIdle
    /\ delays = <<>>
    /\ BuilderUnused
    /\ \E email \in MessageEmails : ServiceIdle(<<email>>)
    /\ BulkIdle
    /\ SendBulkIdle
    /\ BuildMessageIdle

NextMessage ==
    \/ BuildMessageCall

SpecMessage == InitMessage /\ [][NextMessage]_vars

(***************************************************************************)
(* C20.  The outer content type of the built message is                    *)
(* multipart/alternative if and only if the email has no attachment; with  *)
(* attachments it is multipart/mixed, whose first part is the              *)
(* multipart/alternative block, holding exactly the non-empty text and     *)
(* HTML bodies, text first, followed by one part per attachment in the     *)
(* order of the attachments.                                               *)
(***************************************************************************)
\* Reading a message or a part: the header ends at the first empty line.
HeaderEnd(ls) ==
    CHOOSE i \in 1..Len(ls) :
        /\ ls[i].t = "blank"
        /\ \A j \in 1..(i - 1) : ls[j].t # "blank"
HeaderOf(ls) == SubSeq(ls, 1, HeaderEnd(ls) - 1)
BodyOf(ls) == SubSeq(ls, HeaderEnd(ls) + 1, Len(ls))
ContentTypeFields(ls) ==
    SelectSeq(HeaderOf(ls), LAMBDA l : l.t = "field" /\ l.k = "Content-Type")
\* The media types the header declares.
ContentTypes(ls) ==
    {ContentTypeFields(ls)[i].v[1] : i \in 1..Len(ContentTypeFields(ls))}
BoundaryOf(ls) == ContentTypeFields(ls)[1].v[3]

IsDelimiter(l, boundary) == l.t \in {"open", "close"} /\ l.v = boundary
\* The first delimiter or terminator of boundary in ls, 0 when none.
FirstDelimiter(ls, boundary) ==
    IF \E i \in 1..Len(ls) : IsDelimiter(ls[i], boundary)
      THEN CHOOSE i \in 1..Len(ls) :
             /\ IsDelimiter(ls[i], boundary)
             /\ \A j \in 1..(i - 1) : ~IsDelimiter(ls[j], boundary)
      ELSE 0
\* The parts of a multipart body: what lies between one delimiter and the
\* next, up to the terminator.
RECURSIVE PartsOf(_, _)
PartsOf(ls, boundary) ==
    LET d == FirstDelimiter(ls, boundary)
    IN  IF d = 0 \/ ls[d].t = "close" THEN <<>>
        ELSE LET rest == SubSeq(ls, d + 1, Len(ls))
                 e == FirstDelimiter(rest, boundary)
             IN  IF e = 0 THEN <<rest>>
                 ELSE <<SubSeq(rest, 1, e - 1)>>
                         \o PartsOf(SubSeq(rest, e, Len(rest)), boundary)

\* The lines of one kind in the body of a part, joined.
RECURSIVE Joined(_, _)
Joined(ls, t) ==
    IF Len(ls) = 0 THEN <<>>
    ELSE (IF Head(ls).t = t THEN Head(ls).v ELSE <<>>) \o Joined(Tail(ls), t)

\* The bodies of a multipart/alternative block, as <<media type, text>>.
BodiesOf(ls, boundary) ==
    [i \in 1..Len(PartsOf(ls, boundary)) |->
        LET part == PartsOf(ls, boundary)[i]
        IN  <<ContentTypeFields(part)[1].v[1]>> \o Joined(BodyOf(part), "text")]

\* The non-empty bodies of the email, text first.
NonEmptyBodies(email) ==
    (IF email.TextBody # "" THEN <<<<"text/plain", email.TextBody>>>> ELSE <<>>)
    \o (IF email.HTMLBody # "" THEN <<<<"text/html", email.HTMLBody>>>> ELSE <<>>)

\* The part is the attachment att.
IsAttachmentPart(part, att) ==
    /\ Len(ContentTypeFields(part)) = 1
    /\ ContentTypeFields(part)[1].v = <<att.ContentType, "name", att.Filename>>
    /\ Joined(BodyOf(part), "base64") = EncodeToString(att.Data)

C20_Structure(email, msg) ==
    LET n == Len(email.Attachments)
        parts == PartsOf(BodyOf(msg), BoundaryOf(msg))
    IN  /\ ContentTypes(msg)
              = {IF n = 0 THEN "multipart/alternative" ELSE "multipart/mixed"}
        /\ n = 0 => BodiesOf(BodyOf(msg), BoundaryOf(msg)) = NonEmptyBodies(email)
        /\ n > 0 =>
              /\ Len(parts) = n + 1
              /\ ContentTypes(parts[1]) = {"multipart/alternative"}
              /\ BodiesOf(BodyOf(parts[1]), BoundaryOf(parts[1]))
                    = NonEmptyBodies(email)
              /\ \A j \in 1..n : IsAttachmentPart(parts[j + 1], email.Attachments[j])

C20_MessageStructure == message # <<>> => C20_Structure(emails[1], message)

(***************************************************************************)
(* The encoded lines of one attachment: encodeAttachment, and the same     *)
(* loop in buildMessage.                                                   *)
(***************************************************************************)
\* The payloads of the model: n bytes first + step, first + 2 * step, ...
Payloads ==
    {[i \in 1..n |-> (first + i * step) % 256] :
        n \in 0..MaxPayload, first \in {0, 77, 255}, step \in {0, 1, 85}}

\* The attachment part is written for att.Data.
EncodeAttachment ==
    /\ ~attPart.done
    /\ attPart' = [done |-> TRUE, lines |-> EncodedLines(EncodeToString(attData))]
    /\ UNCHANGED <<poolVars, sendVars, closeVars, ctxCancelled, appVars, sbVars,
                   newVars, message, attData, swcVars, msgIds, delivered>>

InitEncode ==
    /\ InitPool
    /\ InitSend
    /\ InitClose
    /\ ctxCancelled = FALSE
    /\ DoIdle
    /\ delays = <<>>
    /\ BuilderUnused
    /\ ServiceIdle(<<>>)
    /\ BulkIdle
    /\ SendBulkIdle
    /\ message = <<>>
    /\ attData \in Payloads
    /\ attPart = [done |-> FALSE, lines |-> <<>>]
    /\ SwcIdle
    /\ msgIds = <<>>
    /\ delivered = 0

NextEncode ==
    \/ EncodeAttachment

SpecEncode == InitEncode /\ [][NextEncode]_vars

(***************************************************************************)
(* C21.  For every attachment payload the encoded part consists of lines   *)
(* of at most 76 characters, every line but the last of exactly 76, and    *)
(* the lines, concatenated and base64-decoded, are the payload.            *)
(***************************************************************************)
\* base64.StdEncoding.DecodeString of groups of four characters.
RECURSIVE DecodeString(_)
DecodeString(chars) ==
    IF Len(chars) < 4 THEN <<>>
    ELSE (IF chars[3] = Pad
            THEN <<chars[1] * 4 + chars[2] \div 16>>
          ELSE IF chars[4] = Pad
            THEN <<chars[1] * 4 + chars[2] \div 16,
                   (chars[2] % 16) * 16 + chars[3] \div 4>>
          ELSE <<chars[1] * 4 + chars[2] \div 16,
                 (chars[2] % 16) * 16 + chars[3] \div 4,
                 (chars[3] % 4) * 64 + chars[4]>>)
         \o DecodeString(SubSeq(chars, 5, Len(chars)))

C21_AttachmentRoundTrip ==
    attPart.done =>
        /\ \A i \in 1..Len(attPart.lines) :
              /\ attPart.lines[i].t = "base64"
              /\ Len(attPart.lines[i].v) <= 76
              /\ i < Len(attPart.lines) => Len(attPart.lines[i].v) = 76
              /\ Len(attPart.lines[i].v) > 0
        /\ DecodeString(Joined(attPart.lines, "base64")) = attData

\* 58 bytes, not all alike: a line of 76 characters and a line of 4 with
\* padding.
C21_Witness ==
    /\ attPart.done
    /\ Len(attData) = 58
    /\ attData[1] # attData[2]
    /\ Len(attPart.lines) = 2
    /\ Len(attPart.lines[2].v) = 4
    /\ attPart.lines[2].v[4] = Pad
    /\ DecodeString(Joined(attPart.lines, "base64")) = attData

(***************************************************************************)
(* C22.  For any valid Email the boundary tokens of the built message      *)
(* appear nowhere inside the content of a part, the two tokens of one      *)
(* message differ, every declared boundary is closed exactly once by its   *)
(* terminator, and every line terminator of the message is CRLF.           *)
(***************************************************************************)
\* The boundaries the Content-Type fields of the message declare.
DeclaredBoundaries(msg) ==
    {msg[i].v[3] : i \in {j \in 1..Len(msg) :
                            /\ msg[j].t = "field"
                            /\ msg[j].k = "Content-Type"
                            /\ Len(msg[j].v) = 3
                            /\ msg[j].v[2] = "boundary"}}

\* A line of a body or of an encoded attachment names the boundary.
NamesBoundary(l, boundaries) == l.t \in {"open", "close"} /\ l.v \in boundaries

RECURSIVE AttachmentContent(_)
AttachmentContent(attachments) ==
    IF Len(attachments) = 0 THEN <<>>
    ELSE EncodedLines(EncodeToString(Head(attachments).Data))
            \o AttachmentContent(Tail(attachments))

\* What the email puts inside the parts.
ContentLines(email) ==
    BodyLines(email.TextBody) \o BodyLines(email.HTMLBody)
        \o AttachmentContent(email.Attachments)

C22_Closed(msg, boundary) ==
    Cardinality({i \in 1..Len(msg) : msg[i].t = "close" /\ msg[i].v = boundary}) = 1

C22_WellFormed(email, msg) ==
    /\ \A i \in 1..Len(ContentLines(email)) :
          ~NamesBoundary(ContentLines(email)[i], DeclaredBoundaries(msg))
    /\ Len(email.Attachments) > 0 => Cardinality(DeclaredBoundaries(msg)) = 2
    /\ \A boundary \in DeclaredBoundaries(msg) : C22_Closed(msg, boundary)
    /\ \A i \in 1..Len(msg) :
          msg[i].t = "text" => \A n \in 1..Len(msg[i].v) : msg[i].v[n] # LF

C22_MessageWellFormed ==
    (message # <<>> /\ Validate(emails[1]) = NoErr)
        => C22_WellFormed(emails[1], message)

(***************************************************************************)
(* SMTPClient.sendWithConnection, command by command.  The server answers  *)
(* each command with success or with an error.                             *)
(***************************************************************************)
AddrTo2 == <<"t", "@", "b", ".", "i", "o">>
AddrCc == <<"c", "@", "b", ".", "i", "o">>
AddrBcc == <<"d", "@", "b", ".", "i", "o">>
AddrLists(addrs) == UNION {[1..n -> addrs] : n \in 0..MaxRcpt}

\* The Emails handed to sendWithConnection.
RcptEmails ==
    {[EmailOk EXCEPT !.To = to, !.Cc = cc, !.Bcc = bcc] :
        to \in AddrLists({AddrOk, AddrTo2}), cc \in AddrLists({AddrCc}),
        bcc \in AddrLists({AddrBcc})}

\* The command reached the server, which answered ok or not; on an error
\* sendWithConnection returns it, else it goes on at next.
Issue(cmd, arg, ok, err, next) ==
    /\ cmds' = Append(cmds, [cmd |-> cmd, arg |-> arg, ok |-> ok])
    /\ IF ok
         THEN /\ swcPc' = next
              /\ UNCHANGED swcErr
         ELSE /\ swcPc' = "returned"
              /\ swcErr' = err
    /\ UNCHANGED <<poolVars, sendVars, closeVars, ctxCancelled, appVars, sbVars,
                   newVars, message, attData, attPart, msgIds, delivered>>

\* Where sendWithConnection goes on when the RCPT TO loop is at i.
AfterRcpt(i) == IF i < Len(allRecipients(emails[1])) THEN "rcpt" ELSE "data"

\* conn.Mail(email.From)
SwcMail ==
    \E ok \in BOOLEAN :
        /\ swcPc = "mail"
        /\ Issue("MAIL FROM", emails[1].From, ok, ErrMail, AfterRcpt(0))
        /\ UNCHANGED rcptI

\* conn.Rcpt(addr), one pass of the loop over allRecipients
SwcRcpt ==
    \E ok \in BOOLEAN :
        /\ swcPc = "rcpt"
        /\ rcptI < Len(allRecipients(emails[1]))
        /\ rcptI' = rcptI + 1
        /\ Issue("RCPT TO", allRecipients(emails[1])[rcptI + 1], ok, ErrRcpt,
                 AfterRcpt(rcptI + 1))

\* conn.Data()
SwcData ==
    \E ok \in BOOLEAN :
        /\ swcPc = "data"
        /\ Issue("DATA", <<>>, ok, ErrData, "write")
        /\ UNCHANGED rcptI

\* w.Write(message)
SwcWrite ==
    \E ok \in BOOLEAN :
        /\ swcPc = "write"
        /\ Issue("message", <<>>, ok, ErrWrite, "close")
        /\ UNCHANGED rcptI

\* w.Close(): the line with the dot, and the reply of the server to the
\* message
SwcClose ==
    \E ok \in BOOLEAN :
        /\ swcPc = "close"
        /\ Issue(".", <<>>, ok, ErrClose, "reset")
        /\ UNCHANGED rcptI

\* return conn.Reset()
SwcReset ==
    \E ok \in BOOLEAN :
        /\ swcPc = "reset"
        /\ Issue("RSET", <<>>, ok, ErrReset, "returned")
        /\ UNCHANGED rcptI

\* Send has a connection and the message, and calls sendWithConnection.
InitSwc ==
    /\ InitPool
    /\ InitSend
    /\ InitClose
    /\ ctxCancelled = FALSE
    /\ DoIdle
    /\ delays = <<>>
    /\ BuilderUnused
    /\ \E email \in RcptEmails : ServiceIdle(<<email>>)
    /\ BulkIdle
    /\ SendBulkIdle
    /\ message = <<>>
    /\ attData = <<>>
    /\ attPart = [done |-> FALSE, lines |-> <<>>]
    /\ swcPc = "mail"
    /\ rcptI = 0
    /\ cmds = <<>>
    /\ swcErr = NoErr
    /\ msgIds = <<>>
    /\ delivered = 0

NextSwc ==
    \/ SwcMail
    \/ SwcRcpt
    \/ SwcData
    \/ SwcWrite
    \/ SwcClose
    \/ SwcReset

SpecSwc == InitSwc /\ [][NextSwc]_vars

(***************************************************************************)
(* C23.  Within one Send the commands are issued in the order MAIL FROM,   *)
(* one RCPT TO per recipient (all To, then all Cc, then all Bcc), DATA     *)
(* with the message, RESET; DATA is issued only if MAIL FROM and every     *)
(* RCPT TO succeeded, and the first failing command ends the sequence: no  *)
(* command is issued after it.                                             *)
(***************************************************************************)
\* The commands of a Send in which every command succeeds.
C23_Commands(email) ==
    <<[cmd |-> "MAIL FROM", arg |-> email.From]>>
    \o [i \in 1..Len(email.To) |-> [cmd |-> "RCPT TO", arg |-> email.To[i]]]
    \o [i \in 1..Len(email.Cc) |-> [cmd |-> "RCPT TO", arg |-> email.Cc[i]]]
    \o [i \in 1..Len(email.Bcc) |-> [cmd |-> "RCPT TO", arg |-> email.Bcc[i]]]
    \o <<[cmd |-> "DATA", arg |-> <<>>], [cmd |-> "message", arg |-> <<>>],
         [cmd |-> ".", arg |-> <<>>], [cmd |-> "RSET", arg |-> <<>>]>>

C23_CommandOrder ==
    LET all == C23_Commands(emails[1])
    IN  /\ Len(cmds) <= Len(all)
        /\ \A i \in 1..Len(cmds) :
              /\ cmds[i].cmd = all[i].cmd
              /\ cmds[i].arg = all[i].arg
              /\ i < Len(cmds) => cmds[i].ok
        /\ swcPc = "returned" =>
              /\ Len(cmds) > 0
              /\ cmds[Len(cmds)].ok => Len(cmds) = Len(all)
              /\ swcErr = NoErr <=> cmds[Len(cmds)].ok
        /\ swcPc # "returned" => \A i \in 1..Len(cmds) : cmds[i].ok

\* A Send to two To, one Cc and one Bcc recipient went through to RESET.
C23_Witness ==
    /\ swcPc = "returned"
    /\ swcErr = NoErr
    /\ Len(emails[1].To) = 2
    /\ emails[1].To[1] # emails[1].To[2]
    /\ Len(emails[1].Cc) = 1
    /\ Len(emails[1].Bcc) = 1
    /\ Len(cmds) = 9
    /\ cmds[9].cmd = "RSET"

(***************************************************************************)
(* C24.  IsRetryable returns false for every error whose text contains a   *)
(* permanent indicator (550, 551, 552, 553 or 554), whatever else the text *)
(* contains, so Do aborts right after the attempt that returned it, even   *)
(* when attempts remain.                                                   *)
(***************************************************************************)
HasPermanentIndicator(err) ==
    \E i \in 1..Len(permanentErrors) : contains(err.text, permanentErrors[i])

\* The last error fn returned has a permanent indicator: Do has returned
\* it as permanent, and waits for no further attempt.
C24_PermanentAborts ==
    (doPc # "idle" /\ lastErr # NilErr /\ HasPermanentIndicator(lastErr))
        => /\ ~IsRetryable(lastErr)
           /\ doPc = "returned"
           /\ doResult.kind = "permanent"

(***************************************************************************)
(* C25.  An error whose text contains no transient and no permanent        *)
(* indicator (the pool-closed error, the context-cancelled error of Get)   *)
(* is classified as transient, so Do retries it until MaxAttempts is       *)
(* reached.                                                                *)
(***************************************************************************)
NoIndicator(err) ==
    /\ ~HasPermanentIndicator(err)
    /\ ~\E i \in 1..Len(temporaryErrors) : contains(err.text, temporaryErrors[i])

C26_AttemptsCounted ==
    /\ \A p \in 1..Len(emails) :
          /\ emails[p].Attempts = senderCalls[p]
          /\ emails[p].Attempts <= retryConfig.MaxAttempts
    /\ (svcPc = "returned" /\ sendEmailErr.kind = "validation failed")
          => emails[cur].Attempts = 0
    /\ (svcPc = "returned" /\ sendEmailErr.kind # "validation failed")
          => emails[cur].Attempts >= 1

\* SendEmail failed after five calls of the sender.
C26_Witness ==
    /\ svcPc = "returned"
    /\ sendEmailErr.kind = "failed to send email"
    /\ emails[cur].Attempts = 5
    /\ senderCalls[cur] = 5

(***************************************************************************)
(* C27.  The status of an Email only ever moves along pending -> sending   *)
(* -> {sent | failed}: over any sequence of SendEmail and SendBulkEmails   *)
(* calls no other transition occurs, in particular none out of sent or     *)
(* failed, and the status retrying is never assigned.                      *)
(***************************************************************************)
C27_Transitions ==
    {<<"pending", "sending">>, <<"sending", "sent">>, <<"sending", "failed">>}

C27_StatusStep ==
    \A p \in 1..Len(emails) :
        emails'[p].Status # emails[p].Status
            => <<emails[p].Status, emails'[p].Status>> \in C27_Transitions

C27_StatusMachine ==
    /\ [][C27_StatusStep]_vars
    /\ [](\A p \in 1..Len(emails) : emails[p].Status # "retrying")

(***************************************************************************)
(* C28.  Under any interleaving of concurrent Sends sharing one pool no    *)
(* connection is held by two Sends at the same time: between the Get that  *)
(* returns connection c and the Put of c no other Get returns c.           *)
(***************************************************************************)
C28_ExclusiveHold ==
    /\ \A p \in Senders, q \in Senders :
          (p # q /\ held[p] # NoConn) => held[q] # held[p]
    /\ \A p \in Senders, i \in 1..Len(connections) :
          held[p] # NoConn => connections[i] # held[p]
    /\ \A i \in 1..Len(connections), j \in 1..Len(connections) :
          i # j => connections[i] # connections[j]

\* Two Sends are between Get and Put, each with a connection of its own.
C28_Witness ==
    /\ pc[1] = "send"
    /\ pc[2] = "send"
    /\ gotConn[1]
    /\ gotConn[2]
    /\ held[1] # NoConn
    /\ held[2] # NoConn
    /\ held[1] # held[2]

(***************************************************************************)
(* Get on a pool that stays open: the Sends of the senders, without Close. *)
(* A goroutine inside Get is scheduled, and the timer of its select fires. *)
(***************************************************************************)
GetStep(p) ==
    \/ GetRecv(p)
    \/ GetCtxDone(p)
    \/ GetTimeout(p)
    \/ GetProbe(p)

\* An open pool in use, with some or none of its connections buffered, and
\* senders that have not called Get yet.
InitGet ==
    /\ InitPoolUsed
    /\ InitSend
    /\ InitClose
    /\ ctxCancelled = FALSE
    /\ DoIdle
    /\ delays = <<>>
    /\ BuilderUnused
    /\ ServiceIdle(<<>>)
    /\ BulkIdle
    /\ SendBulkIdle
    /\ BuildMessageIdle

\* One Get of every sender; a sender that got a connection sends and puts
\* it back, or keeps it for ever.
NextGet ==
    \/ \E p \in Senders : GetCheck(p)
    \/ \E p \in Senders : GetRecv(p)
    \/ \E p \in Senders : GetCtxDone(p)
    \/ \E p \in Senders : GetTimeout(p)
    \/ \E p \in Senders : GetProbe(p)
    \/ \E p \in Senders : SendWithConnection(p)
    \/ CtxCancel

SpecGet == InitGet /\ [][NextGet]_vars /\ \A p \in Senders : WF_vars(GetStep(p))

(***************************************************************************)
(* C29.  Every Get on an open pool eventually returns: with a connection   *)
(* when one is buffered, with the error of the context when the context is *)
(* cancelled while the buffer is empty, with the timeout error when the    *)
(* fixed wait elapses; it never blocks for ever, even when the buffer      *)
(* stays empty for ever.                                                   *)
(***************************************************************************)
InGet(p) == pc[p] \in {"get_select", "get_probe"}

\* Get returns a connection to p.
C29_ReturnsConn(p) == pc'[p] = "send" /\ gotConn'[p] /\ held'[p] # NoConn
\* Get returns the error err to p.
C29_ReturnsErr(p, err) == pc'[p] = "send_ret" /\ sendErr'[p] = err

\* As stated: a Get that finds a connection buffered returns a connection,
\* and the error of the context is returned only over an empty buffer.
C29_StrictStep ==
    \A p \in Senders :
        /\ (pc[p] = "get_select" /\ pc'[p] # "get_select" /\ Len(connections) > 0)
              => pc'[p] = "get_probe"
        /\ (pc[p] = "get_probe" /\ pc'[p] # "get_probe") => C29_ReturnsConn(p)
        /\ (pc[p] = "get_select" /\ C29_ReturnsErr(p, ErrGetCtx))
              => (ctxCancelled /\ Len(connections) = 0)
        /\ (pc[p] = "get_select" /\ C29_ReturnsErr(p, ErrGetTimeout))
              => Len(connections) = 0

C29_Step ==
    \A p \in Senders :
        /\ (pc[p] = "get_select" /\ pc'[p] # "get_select") =>
              \/ /\ Len(connections) > 0
                 /\ pc'[p] = "get_probe"
                 /\ held'[p] = Head(connections)
              \/ ctxCancelled /\ C29_ReturnsErr(p, ErrGetCtx)
              \/ Len(connections) = 0 /\ C29_ReturnsErr(p, ErrGetTimeout)
        /\ (pc[p] = "get_probe" /\ pc'[p] # "get_probe") =>
              \/ C29_ReturnsConn(p)
              \/ C29_ReturnsErr(p, ErrRecreate)

MessageIdOf(msg) ==
    LET i == CHOOSE j \in 1..Len(msg) : msg[j].t = "field" /\ msg[j].k = "Message-ID"
    IN  msg[i].v

\* The Emails of the Sends.
IdEmails ==
    {[EmailOk EXCEPT !.TextBody = text, !.HTMLBody = html, !.Priority = prio] :
        text \in Texts, html \in Texts, prio \in Priorities}

\* The next Send of the client builds its message.
BuildNextMessage ==
    /\ Len(msgIds) < Len(emails)
    /\ \E now \in ClockReadings :
          msgIds' = Append(msgIds,
                           MessageIdOf(buildMessage(emails[Len(msgIds) + 1], now)))
    /\ UNCHANGED <<poolVars, sendVars, closeVars, ctxCancelled, appVars, sbVars,
                   newVars, message, attData, attPart, swcVars, delivered>>

InitIds ==
    /\ InitPool
    /\ InitSend
    /\ InitClose
    /\ ctxCancelled = FALSE
    /\ DoIdle
    /\ delays = <<>>
    /\ BuilderUnused
    /\ \E es \in [1..MaxBatch -> IdEmails] : ServiceIdle(es)
    /\ BulkIdle
    /\ SendBulkIdle
    /\ BuildMessageIdle

NextIds ==
    \/ BuildNextMessage

SpecIds == InitIds /\ [][NextIds]_vars

(***************************************************************************)
(* C30.  Every message built by the client carries a unique Message-ID:    *)
(* any two buildMessage calls on the same client, also those of concurrent *)
(* Sends of a SendBulk that read the same clock value, give different      *)
(* Message-ID values.                                                      *)
(***************************************************************************)
C30_UniqueMessageIds ==
    \A i \in 1..Len(msgIds), j \in 1..Len(msgIds) : i # j => msgIds[i] # msgIds[j]

(***************************************************************************)
(* C31.  The pool never loses capacity for good: after any sequence of Get *)
(* and Put calls on an open pool of size PoolSize, also Get calls that     *)
(* fail because a dead connection could not be recreated, the connections  *)
(* buffered plus the connections checked out number PoolSize, so that a    *)
(* later Get can still obtain a connection.                                *)
(***************************************************************************)
C31_NoCapacityLoss ==
    ~closed => Len(connections) + Cardinality(CheckedOut) = PoolSize

(***************************************************************************)
(* SMTPClient.Send from the return of Get to the deferred Put: sender 1    *)
(* has checked out connection 1 and runs sendWithConnection on it.         *)
(***************************************************************************)
\* defer c.pool.Put(conn): runs when sendWithConnection has returned, with
\* an error or without.
SwcPut ==
    /\ swcPc = "returned"
    /\ pc[1] = "send"
    /\ Put(1)
    /\ swcPc' = "put"
    /\ pc' = [pc EXCEPT ![1] = "send_ret"]
    /\ sendErr' = [sendErr EXCEPT ![1] = swcErr]
    /\ UNCHANGED <<gotConn, chanClosed, closed, mu, closeVars, ctxCancelled, appVars,
                   sbVars, newVars, message, attData, attPart, rcptI, cmds, swcErr,
                   msgIds, delivered>>

\* Get has returned connection 1 to sender 1; the other connections are
\* buffered.
InitSendSwc ==
    /\ NewBuilt
    /\ connections = [i \in 1..(PoolSize - 1) |-> i + 1]
    /\ chanClosed = FALSE
    /\ closed = FALSE
    /\ mu = FALSE
    /\ connState = [c \in ConnIds |-> IF c <= PoolSize THEN "open" ELSE "unborn"]
    /\ pc = [p \in Senders |-> IF p = 1 THEN "send" ELSE "idle"]
    /\ held = [p \in Senders |-> IF p = 1 THEN 1 ELSE NoConn]
    /\ gotConn = [p \in Senders |-> p = 1]
    /\ putCount = [p \in Senders |-> 0]
    /\ sendErr = [p \in Senders |-> NoErr]
    /\ InitClose
    /\ ctxCancelled = FALSE
    /\ DoIdle
    /\ delays = <<>>
    /\ BuilderUnused
    /\ \E email \in RcptEmails : ServiceIdle(<<email>>)
    /\ BulkIdle
    /\ SendBulkIdle
    /\ message = <<>>
    /\ attData = <<>>
    /\ attPart = [done |-> FALSE, lines |-> <<>>]
    /\ swcPc = "mail"
    /\ rcptI = 0
    /\ cmds = <<>>
    /\ swcErr = NoErr
    /\ msgIds = <<>>
    /\ delivered = 0

NextSendSwc ==
    \/ SwcMail
    \/ SwcRcpt
    \/ SwcData
    \/ SwcWrite
    \/ SwcClose
    \/ SwcReset
    \/ SwcPut

SpecSendSwc == InitSendSwc /\ [][NextSendSwc]_vars

\* The session has a transaction pending after the commands of log: a MAIL
\* FROM the server accepted, and after it neither a completed DATA nor a
\* RESET.
TxnPending(log) ==
    \E i \in 1..Len(log) :
        /\ log[i].cmd = "MAIL FROM"
        /\ log[i].ok
        /\ ~\E j \in (i + 1)..Len(log) : log[j].cmd \in {".", "RSET"} /\ log[j].ok

(***************************************************************************)
(* C32.  Every connection that Send puts back into the buffer of the pool  *)
(* is in the state of a fresh transaction (no MAIL FROM or RCPT TO pending *)
(* without a completed DATA or RESET), after a failed send as well as      *)
(* after a successful one.                                                 *)
(***************************************************************************)
C32_FreshOnPut ==
    (swcPc = "put" /\ \E i \in 1..Len(connections) : connections[i] = 1)
        => ~TxnPending(cmds)

(***************************************************************************)
(* SendEmail with the sender SMTPClient.Send: what one Send does to the    *)
(* message and what it returns.                                            *)
(***************************************************************************)
\* What Send returns when conn.Reset() fails on a connection the server
\* has dropped: "failed to send: EOF", here its last word.
ErrResetEOF == [code |-> 0, text |-> <<"E", "O", "F">>]

\* The ways one Send ends: the server has accepted the message when
\* w.Close() returned nil, and Send returns what the commands before it, or
\* conn.Reset() after it, return.
SendEndings ==
    {[accepted |-> FALSE, err |-> Err451],
     [accepted |-> FALSE, err |-> Err550],
     [accepted |-> TRUE, err |-> NilErr],
     [accepted |-> TRUE, err |-> ErrResetEOF]}

\* One iteration of the loop of Do inside SendEmail, with Send as sender.
DoAttemptSend ==
    /\ doPc = "loop"
    /\ svcPc = "retrying"
    /\ IF attempt <= cfg.MaxAttempts
         THEN \E end \in SendEndings :
                 /\ DoIteration(end.err)
                 /\ delivered' = IF end.accepted THEN delivered + 1 ELSE delivered
         ELSE /\ DoLoopExit
              /\ UNCHANGED delivered
    /\ UNCHANGED <<poolVars, sendVars, closeVars, ctxCancelled, delays, buildVars,
                   svcPc, cur, sendEmailErr, sendEmailLog, bulkVars, sbVars, newVars,
                   message, attData, attPart, swcVars, msgIds>>

\* NewEmailService returned; the caller holds a valid Email.
InitDeliver ==
    /\ InitPool
    /\ InitSend
    /\ InitClose
    /\ ctxCancelled = FALSE
    /\ DoIdle
    /\ delays = <<>>
    /\ BuilderUnused
    /\ ServiceIdle(<<EmailOk>>)
    /\ BulkIdle
    /\ SendBulkIdle
    /\ BuildMessageIdle

NextDeliver ==
    \/ SendEmailCall
    \/ DoAttemptSend
    \/ DoWaitTimer
    \/ DoWaitCtx
    \/ SendEmailFinish
    \/ CtxCancel

SpecDeliver == InitDeliver /\ [][NextDeliver]_vars

(***************************************************************************)
(* C33.  Within one SendEmail call the server accepts the message at most  *)
(* once: an attempt whose DATA transfer completed is reported as success   *)
(* and no later attempt transmits the message again; SendEmail returns an  *)
(* error only when the message was not accepted.                           *)
(***************************************************************************)
C33_AcceptedAtMostOnce ==
    /\ delivered <= 1
    /\ (svcPc = "returned" /\ sendEmailErr # [kind |-> "nil"]) => delivered = 0

(***************************************************************************)
(* C34.  No connection leaks: once Close has been called and every Send    *)
(* that was in flight has returned, every connection the pool ever created *)
(* (by NewConnectionPool or as a replacement in Get) has been terminated,  *)
(* whether it was buffered when Close ran, checked out then and Put later, *)
(* or discarded as dead.                                                   *)
(***************************************************************************)
\* Close has returned and no Send is running.
C34_ClosedAndQuiet ==
    /\ closed
    /\ closePc = "idle"
    /\ \A p \in Senders : pc[p] = "idle"

C34_NoLeak ==
    C34_ClosedAndQuiet => \A c \in ConnIds : connState[c] # "open"

\* Close has returned and no Send runs; the connections NewConnectionPool
\* made and a replacement made by Get have all been terminated.
C34_Witness ==
    /\ C34_ClosedAndQuiet
    /\ \A c \in 1..(PoolSize + 1) : connState[c] = "terminated"

(***************************************************************************)
(* C35.  Do returns nil if and only if some invocation of the operation    *)
(* returned nil; it invokes the operation at least once and at most        *)
(* MaxAttempts times for every configuration, and makes no further         *)
(* invocation after the first success, the first permanent error, or a     *)
(* cancellation observed during a wait.                                    *)
(***************************************************************************)
\* Do has returned: what it returned and how often it called.
C35_AtReturn ==
    doPc = "returned" =>
        /\ doResult = DoNil <=> NilErr.code \in seen
        /\ calls >= 1
        /\ calls <= cfg.MaxAttempts

\* An invocation of the operation: none has returned nil or a permanent
\* error before, and Do has not returned.
C35_Invocation ==
    calls' # calls =>
        /\ calls' = calls + 1
        /\ doPc = "loop"
        /\ NilErr.code \notin seen
        /\ seen \cap PermanentCodes = {}

C35_DoContract == []C35_AtReturn /\ [][C35_Invocation]_vars

(***************************************************************************)
(* SMTPClient.Send after Get: buildMessage, then sendWithConnection with   *)
(* the message, for Emails with copies and blind copies.                   *)
(***************************************************************************)
\* message, err := c.buildMessage(email), which returns no error.
SendBuildMessage ==
    /\ swcPc = "off"
    /\ \E now \in ClockReadings : message' = buildMessage(emails[1], now)
    /\ swcPc' = "mail"
    /\ UNCHANGED <<poolVars, sendVars, closeVars, ctxCancelled, appVars, sbVars,
                   newVars, attData, attPart, rcptI, cmds, swcErr, msgIds, delivered>>

\* Send has a connection and has not built the message yet.
InitBcc ==
    /\ InitPool
    /\ InitSend
    /\ InitClose
    /\ ctxCancelled = FALSE
    /\ DoIdle
    /\ delays = <<>>
    /\ BuilderUnused
    /\ \E email \in RcptEmails : ServiceIdle(<<email>>)
    /\ BulkIdle
    /\ SendBulkIdle
    /\ BuildMessageIdle

NextBcc ==
    \/ SendBuildMessage
    \/ SwcMail
    \/ SwcRcpt
    \/ SwcData
    \/ SwcWrite
    \/ SwcClose
    \/ SwcReset

SpecBcc == InitBcc /\ [][NextBcc]_vars

(***************************************************************************)
(* C36.  The blind copies are disclosed to the SMTP envelope only: every   *)
(* Bcc address receives a RCPT TO, and the bytes buildMessage produces do  *)
(* not depend on the Bcc list: an email that differs only in Bcc yields,   *)
(* with the same readings of the clock, the same message.                  *)
(***************************************************************************)
\* The message of the same Email with the blind copies bcc.
C36_SameMessage(bcc) ==
    \E now \in ClockReadings :
        buildMessage([emails[1] EXCEPT !.Bcc = bcc], now) = message

\* Every Bcc address has had its RCPT TO accepted.
C36_EveryBccInEnvelope ==
    \A i \in 1..Len(emails[1].Bcc) :
        \E j \in 1..Len(cmds) :
            /\ cmds[j].cmd = "RCPT TO"
            /\ cmds[j].arg = emails[1].Bcc[i]
            /\ cmds[j].ok

C36_BccEnvelopeOnly ==
    /\ swcPc # "off" => \A bcc \in AddrLists({AddrBcc}) : C36_SameMessage(bcc)
    /\ (swcPc \in {"data", "write", "close", "reset"}
           \/ (swcPc = "returned" /\ swcErr = NoErr)) => C36_EveryBccInEnvelope

\* A Send with a copy and MaxRcpt blind copies went through.
C36_Witness ==
    /\ swcPc = "returned"
    /\ swcErr = NoErr
    /\ message # <<>>
    /\ Len(emails[1].Cc) > 0
    /\ Len(emails[1].Bcc) = MaxRcpt

====
